---- MODULE Spec2Model ----
(***************************************************************************)
(* Session lifecycle and validation engine of the chain-of-draft server:   *)
(* the in-memory session store, the session manager built on it, and the   *)
(* document validators and tool handlers that use them.                    *)
(*                                                                         *)
(* Strings are sequences of Unicode code points, so that the UTF-8 length  *)
(* and the JSON escaping that calculateSize depends on are computed, not   *)
(* assumed.  Objects that the code shares by reference live in cells: a    *)
(* reference is the name of a cell, and structuredClone is the copy of one *)
(* cell's value into another cell.                                         *)
(***************************************************************************)
EXTENDS Integers, Sequences, FiniteSets, TLC

VARIABLES
    now,        \* the wall clock read by new Date() and Date.now()
    sessions,   \* InMemorySessionStorage.sessions: key -> reference, or NoRef
    cell,       \* the session objects, by cell name (a key's or a caller's)
    call,       \* per caller: the SessionManager call in flight and its locals
    lastWrite,  \* history: per key, the last mutation of the stored entry
    calls,      \* history: the number of calls made so far
    vin,        \* validators: the untyped input under validation
    vout,       \* validators: the validator's outcome on that input
    maxSessionSize, \* the manager's maxSessionSize option
    hist,       \* the module-level histories, branches and critique lists
    req,        \* per caller, the tool request it has in progress
    timers      \* per session manager: its cleanup interval and last pass

vars == <<now, sessions, cell, call, lastWrite, calls, vin, vout,
          maxSessionSize, hist, req, timers>>

-----------------------------------------------------------------------------
(* Bounds and configuration                                                *)

MaxTime == 2

\* the number of session-manager calls a run makes
MaxCalls == 3

\* options.maxSessionAge of the manager under test, in clock ticks
MaxSessionAge == 1

Keys == {"k1", "k2"}
Procs == {"p1", "p2"}

\* the one caller of the specification in which calls follow one another
SeqProcs == {"p1"}

NoRef == "none"

-----------------------------------------------------------------------------
(* Strings, and the byte length of their JSON form                         *)

S_empty == <<>>
S_a == <<97>>                       \* "a"
S_quote == <<34>>                   \* "\"" : JSON escapes it as \"
S_eacute == <<233>>                 \* "é" : two bytes in UTF-8
S_euro_a == <<8364, 97>>            \* "€a" : three bytes and one
S_t == <<116>>
S_c == <<99>>
S_d == <<100>>
S_proposed == <<112, 114, 111, 112, 111, 115, 101, 100>>
S_accepted == <<97, 99, 99, 101, 112, 116, 101, 100>>
S_rejected == <<114, 101, 106, 101, 99, 116, 101, 100>>
S_deprecated == <<100, 101, 112, 114, 101, 99, 97, 116, 101, 100>>
S_superseded == <<115, 117, 112, 101, 114, 115, 101, 100, 101, 100>>

\* mutant: the length in characters taken for the length in bytes
Utf8LenAsChars(c) == 1

\* TextEncoder.encode: bytes of one code point that JSON.stringify left as is
Utf8Len(c) ==
    IF c < 128 THEN 1
    ELSE IF c < 2048 THEN 2
    ELSE IF c < 65536 THEN 3
    ELSE 4

\* JSON.stringify of one code point inside a string literal, in bytes
JsonCharLen(c) ==
    IF c = 34 \/ c = 92 THEN 2                        \* \" and \\
    ELSE IF c \in {8, 9, 10, 12, 13} THEN 2           \* \b \t \n \f \r
    ELSE IF c < 32 THEN 6                             \* \u00XX
    ELSE IF c >= 55296 /\ c <= 57343 THEN 6           \* lone surrogate \uDXXX
    ELSE Utf8Len(c)

RECURSIVE SumCharLen(_)
SumCharLen(s) ==
    IF s = <<>> THEN 0 ELSE JsonCharLen(Head(s)) + SumCharLen(Tail(s))

\* bytes of JSON.stringify(s) for a string s: the two quotes and the characters
JsonStringLen(s) == 2 + SumCharLen(s)

RECURSIVE DigitCount(_)
DigitCount(n) == IF n < 10 THEN 1 ELSE 1 + DigitCount(n \div 10)

\* bytes of JSON.stringify(n) for an integer n
JsonIntLen(n) == IF n < 0 THEN 1 + DigitCount(0 - n) ELSE DigitCount(n)

RECURSIVE SumSeq(_)
SumSeq(lens) == IF lens = <<>> THEN 0 ELSE Head(lens) + SumSeq(Tail(lens))

\* bytes of a JSON array whose elements have the given byte lengths
JsonArrayLen(lens) ==
    2 + SumSeq(lens) + (IF Len(lens) > 0 THEN Len(lens) - 1 ELSE 0)

-----------------------------------------------------------------------------
(* Typed values: numbers with NaN, optional fields                         *)

RECURSIVE IntText(_)
\* String(n) for an integer n >= 0: its decimal digits
IntText(n) ==
    IF n < 10 THEN <<48 + n>> ELSE IntText(n \div 10) \o <<48 + (n % 10)>>

Abs(n) == IF n < 0 THEN 0 - n ELSE n

\* the one element of a set of one element
Only(S) == CHOOSE x \in S : TRUE

\* Exact decimals.  A decimal is the pair of a sequence of digits d1 .. dn
\* (each 0..9) and an order: the value 0.d1 .. dn * 10^order.  It is
\* canonical when d1 and dn are not 0; zero has no digit and the order 0.
\* The digits are a sequence of any length, so that no value is cut to the
\* width of an integer.
Digit(ds, i) == IF 1 <= i /\ i <= Len(ds) THEN ds[i] ELSE 0

\* the first and the last position of ds that hold another digit than 0;
\* 0 when no position does
FirstNonZero(ds) ==
    IF \A i \in 1..Len(ds) : ds[i] = 0 THEN 0
    ELSE CHOOSE i \in 1..Len(ds) : ds[i] # 0 /\ \A j \in 1..(i - 1) : ds[j] = 0

LastNonZero(ds) ==
    IF \A i \in 1..Len(ds) : ds[i] = 0 THEN 0
    ELSE CHOOSE i \in 1..Len(ds) :
             ds[i] # 0 /\ \A j \in (i + 1)..Len(ds) : ds[j] = 0

ZeroDecimal == [digits |-> <<>>, order |-> 0]

\* the canonical decimal of the value 0.ds * 10^order, whose first digit
\* other than 0 is at the position first (0: none)
DecimalFrom(ds, order, first) ==
    IF first = 0 THEN ZeroDecimal
    ELSE [digits |-> SubSeq(ds, first, LastNonZero(ds)),
          order |-> order - (first - 1)]

Decimal(ds, order) == DecimalFrom(ds, order, FirstNonZero(ds))

\* the decimal of the integer whose digits are ds
IntDecimal(ds) == Decimal(ds, Len(ds))

RECURSIVE IntDigits(_)
\* the digits of an integer n >= 0
IntDigits(n) ==
    IF n < 10 THEN <<n>> ELSE Append(IntDigits(n \div 10), n % 10)

\* the first of the positions 1 .. n at which two sequences of digits
\* differ, a sequence that ends before it holding 0 there; 0 when none
FirstDifference(s, t, n) ==
    IF \A i \in 1..n : Digit(s, i) = Digit(t, i) THEN 0
    ELSE CHOOSE i \in 1..n :
             /\ Digit(s, i) # Digit(t, i)
             /\ \A j \in 1..(i - 1) : Digit(s, j) = Digit(t, j)

\* -1, 0 or 1 as 0.s is below, equal to or above 0.t, which differ first
\* at position i
LexCompare(s, t, i) ==
    IF i = 0 THEN 0 ELSE IF Digit(s, i) < Digit(t, i) THEN -1 ELSE 1

\* -1, 0 or 1 as x is below, equal to or above y, for two decimals above
\* zero whose first digits are not 0
Compare(x, y) ==
    IF x.order # y.order THEN (IF x.order < y.order THEN -1 ELSE 1)
    ELSE LexCompare(x.digits, y.digits,
                    FirstDifference(x.digits, y.digits,
                                    IF Len(x.digits) > Len(y.digits)
                                    THEN Len(x.digits) ELSE Len(y.digits)))

\* 2 * x: each digit doubled, with the carry of the digit after it
Twice(x) ==
    Decimal([i \in 1..(Len(x.digits) + 1) |->
                (2 * Digit(x.digits, i - 1)
                   + (IF Digit(x.digits, i) >= 5 THEN 1 ELSE 0)) % 10],
            x.order + 1)

\* x / 2: each digit halved, with the remainder of the digit before it
Half(x) ==
    Decimal([i \in 1..(Len(x.digits) + 1) |->
                (Digit(x.digits, i) + 10 * (Digit(x.digits, i - 1) % 2)) \div 2],
            x.order)

\* Long decimals are scaled eight digits at a time: limbs are the digits of
\* a number in the base 10^8, and the value of the pair of limbs L1 .. Ln
\* and an order is 0.L1 .. Ln * (10^8)^order, with L1 and Ln not 0.
Base == 100000000
Tens == <<1, 10, 100, 1000, 10000, 100000, 1000000, 10000000>>

Limb(ls, i) == IF 1 <= i /\ i <= Len(ls) THEN ls[i] ELSE 0

\* the limb of the eight digits of ds after position k
LimbAt(ds, k) ==
    Digit(ds, k + 1) * 10000000 + Digit(ds, k + 2) * 1000000
        + Digit(ds, k + 3) * 100000 + Digit(ds, k + 4) * 10000
        + Digit(ds, k + 5) * 1000 + Digit(ds, k + 6) * 100
        + Digit(ds, k + 7) * 10 + Digit(ds, k + 8)

\* the limbs of the decimal with the digits ds and the order, with pad
\* zeros in front of the digits to bring the order to a multiple of eight
LimbsPadded(ds, order, pad) ==
    [limbs |-> SubSeq([i \in 1..((Len(ds) + pad + 7) \div 8) |->
                          LimbAt(ds, 8 * (i - 1) - pad)],
                      1, (Len(ds) + pad + 7) \div 8),
     order |-> (order + pad) \div 8]

ToLimbs(x) == LimbsPadded(x.digits, x.order, (8 - (x.order % 8)) % 8)

\* the decimal of limbs
FromLimbs(l) ==
    Decimal(SubSeq([i \in 1..(8 * Len(l.limbs)) |->
                       (l.limbs[(i - 1) \div 8 + 1] \div Tens[8 - ((i - 1) % 8)]) % 10],
                   1, 8 * Len(l.limbs)),
            8 * l.order)

\* 2 * l: each limb doubled, with the carry of the limb after it; a limb
\* in front for the carry of the first, none at the end when the last was
\* half the base
TwiceFrom(ls, order, lo, hi) ==
    [limbs |-> SubSeq([i \in 1..(Len(ls) + 1) |->
                          (2 * Limb(ls, i - 1)
                             + (IF 2 * Limb(ls, i) >= Base THEN 1 ELSE 0)) % Base],
                      lo, hi),
     order |-> order + 2 - lo]

TwiceLimbs(l) ==
    TwiceFrom(l.limbs, l.order,
              IF 2 * l.limbs[1] >= Base THEN 1 ELSE 2,
              IF 2 * l.limbs[Len(l.limbs)] = Base
              THEN Len(l.limbs) ELSE Len(l.limbs) + 1)

\* l / 2: each limb halved, with the remainder of the limb before it
HalfFrom(ls, order, lo, hi) ==
    [limbs |-> SubSeq([i \in 1..(Len(ls) + 1) |->
                          (Limb(ls, i) + Base * (Limb(ls, i - 1) % 2)) \div 2],
                      lo, hi),
     order |-> order + 1 - lo]

HalfLimbs(l) ==
    HalfFrom(l.limbs, l.order,
             IF l.limbs[1] = 1 THEN 2 ELSE 1,
             IF l.limbs[Len(l.limbs)] % 2 = 1
             THEN Len(l.limbs) + 1 ELSE Len(l.limbs))

RECURSIVE ScaleLimbs(_, _)
\* l * 2^n
ScaleLimbs(l, n) ==
    IF n = 0 THEN l
    ELSE IF n = 1 THEN TwiceLimbs(l)
    ELSE IF n = -1 THEN HalfLimbs(l)
    ELSE Only({ScaleLimbs(y, n - n \div 2) : y \in {ScaleLimbs(l, n \div 2)}})

\* x * 2^n, exactly
Scale(x, n) == FromLimbs(ScaleLimbs(ToLimbs(x), n))

\* the digits of 2 * n for the integer n with the digits ds
IntTwice(ds) ==
    [i \in 1..(Len(ds) + 1) |->
        (2 * Digit(ds, i - 1) + (IF Digit(ds, i) >= 5 THEN 1 ELSE 0)) % 10]

RECURSIVE Increment(_)
\* the digits of n + 1
Increment(ds) ==
    IF Len(ds) = 0 THEN <<1>>
    ELSE IF ds[Len(ds)] < 9
         THEN Append(SubSeq(ds, 1, Len(ds) - 1), ds[Len(ds)] + 1)
    ELSE Append(Increment(SubSeq(ds, 1, Len(ds) - 1)), 0)

RECURSIVE Decrement(_)
\* the digits of n - 1, for n > 0
Decrement(ds) ==
    IF ds[Len(ds)] > 0 THEN Append(SubSeq(ds, 1, Len(ds) - 1), ds[Len(ds)] - 1)
    ELSE Append(Decrement(SubSeq(ds, 1, Len(ds) - 1)), 9)

RECURSIVE IntAdd(_, _)
\* the digits of n + c for a small integer c >= 0
IntAdd(ds, c) ==
    IF c = 0 THEN ds
    ELSE IF Len(ds) = 0 THEN IntDigits(c)
    ELSE Append(IntAdd(SubSeq(ds, 1, Len(ds) - 1), (ds[Len(ds)] + c) \div 10),
                (ds[Len(ds)] + c) % 10)

\* a JavaScript number: NaN, an infinity (inf is 1 or -1), or a finite
\* double.  A finite double is held as the shortest decimal that reads back
\* as this double, which is the decimal Number::toString writes: neg is its
\* sign, digits and order its canonical decimal.  Two numbers are the same
\* double exactly when they are the same record.  0 stands for both zeros
\* of the language, which no operation modelled here tells apart.
NaN == [nan |-> TRUE, inf |-> 0, neg |-> FALSE, digits |-> <<>>, order |-> 0]
Infinite(sign) ==
    [nan |-> FALSE, inf |-> sign, neg |-> FALSE, digits |-> <<>>, order |-> 0]
Finite(sign, x) ==
    [nan |-> FALSE, inf |-> 0, neg |-> sign < 0 /\ x.digits # <<>>,
     digits |-> x.digits, order |-> x.order]

RECURSIVE Significant(_)
\* the digits of an integer n > 0 without the zeros at its end
Significant(n) ==
    IF n % 10 = 0 THEN Significant(n \div 10) ELSE IntDigits(n)

\* the number of an integer n of 32 bits, which a double holds exactly
Num(n) ==
    IF n = 0 THEN Finite(1, ZeroDecimal)
    ELSE [nan |-> FALSE, inf |-> 0, neg |-> n < 0,
          digits |-> Significant(Abs(n)), order |-> DigitCount(Abs(n))]

\* an optional string field of a typed document: absent, or the string s
Absent == [has |-> FALSE, s |-> <<>>]
Some(s) == [has |-> TRUE, s |-> s]

\* 2^52 and 2^53: a double has a significand of 53 bits
Two52Digits == <<4, 5, 0, 3, 5, 9, 9, 6, 2, 7, 3, 7, 0, 4, 9, 6>>
Two53Digits == <<9, 0, 0, 7, 1, 9, 9, 2, 5, 4, 7, 4, 0, 9, 9, 2>>

\* the least binary exponent of a double (the subnormal numbers) and the
\* greatest
MinExponent == -1074
MaxExponent == 971

\* an exponent s with 2^(s+52) near x, from the decimal order of x, and not
\* below the least exponent
ExponentNear(x) ==
    IF ((x.order - 1) * 3322) \div 1000 - 52 < MinExponent THEN MinExponent
    ELSE ((x.order - 1) * 3322) \div 1000 - 52

RECURSIVE Binade(_, _)
\* the pair of y * 2^k and s - k with 2^52 <= y * 2^k < 2^53, or with
\* s - k the least exponent and y * 2^k < 2^52
Binade(y, s) ==
    IF Compare(y, [digits |-> Two53Digits, order |-> 16]) >= 0
    THEN Only({Binade(z, s + 1) : z \in {Half(y)}})
    ELSE IF Compare(y, [digits |-> Two52Digits, order |-> 16]) < 0
            /\ s > MinExponent
         THEN Only({Binade(z, s - 1) : z \in {Twice(y)}})
    ELSE <<y, s>>

\* the integer nearest to y < 2^53 is the one above y: the even one of two
\* that are as near (roundTiesToEven)
RoundedUp(y) ==
    /\ y.order >= 0
    /\ \/ Digit(y.digits, y.order + 1) > 5
       \/ /\ Digit(y.digits, y.order + 1) = 5
          /\ \/ Len(y.digits) > y.order + 1
             \/ Digit(y.digits, y.order) % 2 = 1

\* the digits of the integer part of y
Truncated(y) ==
    IF y.order <= 0 THEN <<>>
    ELSE SubSeq([i \in 1..y.order |-> Digit(y.digits, i)], 1, y.order)

\* the digits of the integer nearest to y
RoundHalfEven(y) ==
    IF RoundedUp(y) THEN Increment(Truncated(y)) ELSE Truncated(y)

\* the first k digits of the decimal d
Down(d, k) ==
    [digits |-> SubSeq([i \in 1..k |-> Digit(d.digits, i)], 1, k),
     order |-> d.order]

\* the decimal of as many digits above the decimal down, whose digits plus
\* one are inc
UpFrom(down, inc) ==
    [digits |-> inc, order |-> down.order + Len(inc) - Len(down.digits)]

Up(down) == UpFrom(down, Increment(down.digits))

\* the decimal halfway between down and the decimal above it
Middle(down) == [digits |-> Append(down.digits, 5), order |-> down.order]

\* the decimal c reads back as the double between the bounds low and high,
\* which belong to it when its significand is even: toLow and toHigh are
\* the orders of c and the bounds
Inside(toLow, toHigh, even) ==
    IF even THEN toLow >= 0 /\ toHigh <= 0 ELSE toLow > 0 /\ toHigh < 0

ReadsBack(c, low, high, even) ==
    Inside(Compare(c, low), Compare(c, high), even)

\* of two decimals the nearer to d, which is below, at or above their
\* middle as toMiddle is -1, 0 or 1; the even one of two that are as near
Nearer(down, up, toMiddle, evenDown) ==
    IF toMiddle < 0 THEN down
    ELSE IF toMiddle > 0 THEN up
    ELSE IF evenDown THEN down ELSE up

RECURSIVE ShortestFrom(_, _, _, _, _)

\* of the decimals down and up of k digits next to d, the one that reads
\* back, the nearer to d of the two when both do; a decimal of more digits
\* when neither does
Decide(d, k, low, high, even, down, up, downFits, upFits) ==
    IF ~downFits /\ ~upFits THEN ShortestFrom(d, k + 1, low, high, even)
    ELSE IF ~upFits THEN down
    ELSE IF ~downFits THEN up
    ELSE Nearer(down, up, Compare(d, Middle(down)), down.digits[k] % 2 = 0)

TryBoth(d, k, low, high, even, down, up) ==
    Decide(d, k, low, high, even, down, up,
           ReadsBack(down, low, high, even), ReadsBack(up, low, high, even))

TryLength(d, k, low, high, even, down) ==
    TryBoth(d, k, low, high, even, down, Up(down))

\* the shortest decimal of k digits or more that reads back as the double
\* d, whose neighbours are halfway at low and high: with k = 1, the digits
\* that Number::toString writes
ShortestFrom(d, k, low, high, even) ==
    TryLength(d, k, low, high, even, Down(d, k))

\* m is the least significand of its exponent, and the double below
\* m * 2^s half as far as the one above
AtBinade(m, s) == m = Two52Digits /\ s > MinExponent

\* the integers and the exponents of the double m * 2^s and of the halfway
\* points to the doubles below and above it
Bounds(m, s) ==
    << <<m, s>>,
       <<Decrement(IF AtBinade(m, s) THEN IntTwice(IntTwice(m)) ELSE IntTwice(m)),
         IF AtBinade(m, s) THEN s - 2 ELSE s - 1>>,
       <<Increment(IntTwice(m)), s - 1>> >>

\* the decimals n * 2^e of pairs of an integer n and an exponent e
ScaleAll(ps) ==
    SubSeq([i \in 1..Len(ps) |-> Scale(IntDecimal(ps[i][1]), ps[i][2])],
           1, Len(ps))

\* the number of the decimal r
FiniteOf(sign, r) == Finite(sign, Decimal(r.digits, r.order))

\* the double m * 2^s for a significand 0 < m < 2^53: an infinity beyond
\* the greatest exponent
Double(sign, m, s) ==
    IF s > MaxExponent THEN Infinite(sign)
    ELSE FiniteOf(sign,
                  Only({ShortestFrom(t[1], 1, t[2], t[3], m[Len(m)] % 2 = 0) :
                           t \in {ScaleAll(Bounds(m, s))}}))

\* the double of the rounded significand m and the exponent s
Rounded(sign, m, s) ==
    IF Len(m) = 0 THEN Finite(1, ZeroDecimal)
    ELSE Double(sign,
                IF m = Two53Digits THEN Two52Digits ELSE m,
                IF m = Two53Digits THEN s + 1 ELSE s)

\* the double nearest to the decimal x > 0 (roundTiesToEven): x is brought
\* between 2^52 and 2^53 by a power of two, or as near as the least
\* exponent lets it, and rounded to an integer there
NearestDouble(sign, x) ==
    Only({Rounded(sign, RoundHalfEven(b[1]), b[2]) :
             b \in {Only({Binade(y, ExponentNear(x)) :
                             y \in {Scale(x, 0 - ExponentNear(x))}})}})

\* the number sign * x for an exact decimal x, rounded as a double rounds.
\* Beyond the orders 309 and -323 the result is an infinity or zero (the
\* greatest double is below 1.8e308, half the least one above 2.4e-324).
\* A decimal of at most fifteen digits between 1e-307 and 1e308, where the
\* doubles are normal, is the shortest decimal of the double nearest to it
\* (fifteen digits survive the way to a double and back).
Dec(sign, x) ==
    IF x.digits = <<>> THEN Finite(1, ZeroDecimal)
    ELSE IF x.order > 309 THEN Infinite(sign)
    ELSE IF x.order < -323 THEN Finite(1, ZeroDecimal)
    ELSE IF Len(x.digits) <= 15 /\ x.order >= -306 /\ x.order <= 308
         THEN Finite(sign, x)
    ELSE NearestDouble(sign, x)

\* where a number lies: below, among or above the finite numbers of its sign
Rank(a) ==
    IF a.inf # 0 THEN 2 * a.inf
    ELSE IF a.digits = <<>> THEN 0 ELSE IF a.neg THEN -1 ELSE 1

\* |a| < |b| for two finite numbers other than zero
MagnitudeLess(a, b) == Compare(a, b) < 0

\* JavaScript comparisons: every comparison with NaN is false
NumLt(a, b) ==
    /\ ~a.nan /\ ~b.nan
    /\ IF Rank(a) # Rank(b) THEN Rank(a) < Rank(b)
       ELSE IF a.inf # 0 \/ a.digits = <<>> THEN FALSE
       ELSE IF a.neg THEN MagnitudeLess(b, a)
       ELSE MagnitudeLess(a, b)
NumLe(a, b) == ~a.nan /\ ~b.nan /\ ~NumLt(b, a)
NumGt(a, b) == NumLt(b, a)

RECURSIVE Zeros(_)
Zeros(n) == IF n <= 0 THEN <<>> ELSE <<48>> \o Zeros(n - 1)

\* Number::toString of a positive number with the k significant digits s
\* and the decimal order n: plain digits, a decimal point inside or in
\* front, or the exponent notation
DigitsText(s, k, n) ==
    IF k <= n /\ n <= 21 THEN s \o Zeros(n - k)
    ELSE IF 0 < n /\ n <= 21
         THEN SubSeq(s, 1, n) \o <<46>> \o SubSeq(s, n + 1, k)
    ELSE IF -6 < n /\ n <= 0
         THEN <<48, 46>> \o Zeros(0 - n) \o s
    ELSE (IF k = 1 THEN s ELSE <<Head(s), 46>> \o Tail(s))
         \o <<101, IF n - 1 < 0 THEN 45 ELSE 43>> \o IntText(Abs(n - 1))

\* the characters of a sequence of digits
DigitChars(ds) == [i \in 1..Len(ds) |-> 48 + ds[i]]

\* String(x) for a number (Number::toString, radix 10)
NumText(a) ==
    IF a.nan THEN <<78, 97, 78>>                                  \* NaN
    ELSE IF a.inf # 0
         THEN (IF a.inf < 0 THEN <<45>> ELSE <<>>)
              \o <<73, 110, 102, 105, 110, 105, 116, 121>>        \* Infinity
    ELSE IF a.digits = <<>> THEN <<48>>
    ELSE (IF a.neg THEN <<45>> ELSE <<>>)
             \o DigitsText(SubSeq(DigitChars(a.digits), 1, Len(a.digits)),
                           Len(a.digits), a.order)

\* bytes of JSON.stringify of a number: NaN and the infinities are written
\* null
JsonNumLen(a) == IF a.nan \/ a.inf # 0 THEN 4 ELSE Len(NumText(a))

\* the text of a session key, as the id field of a document carries it
KeyText(k) == <<107, IF k = "k1" THEN 49 ELSE 50>>    \* "k1", "k2"

-----------------------------------------------------------------------------
(* Session payloads and their serialized size                              *)

RECURSIVE MapJsonStringLen(_)
MapJsonStringLen(ss) ==
    IF ss = <<>> THEN <<>>
    ELSE <<JsonStringLen(Head(ss))>> \o MapJsonStringLen(Tail(ss))

\* bytes of a JSON object whose members ("key":value) have the given byte
\* lengths
JsonObjectLen(lens) == JsonArrayLen(lens)

JsonBoolLen(b) == IF b THEN 4 ELSE 5

\* bytes of JSON.stringify of a value that a validator keeps as it came (a
\* schema, an element of an array): a string, a number, a boolean, the
\* empty object {}, or null, which also stands for undefined in an array
RawJsonLen(f) ==
    CASE f.t = "str" -> JsonStringLen(f.s)
      [] f.t = "num" -> JsonNumLen(Num(f.n))
      [] f.t = "bool" -> JsonBoolLen(f.b)
      [] f.t = "object" -> 2
      [] OTHER -> 4

\* an Alternative of the architecture decision recorder, as a request
\* carries it
Alternative(option, pros, cons) ==
    [t |-> "alternative", option |-> option, pros |-> pros, cons |-> cons]

\* bytes of JSON.stringify of an element of alternatives, which
\* validateADRData keeps as it came: an Alternative {option, pros, cons} of
\* a string and two arrays of strings, written with its keys ("option":,
\* 9 bytes; "pros": and "cons":, 7 bytes each), or a value as above
ItemJsonLen(f) ==
    IF f.t = "alternative"
    THEN JsonObjectLen(<<9 + JsonStringLen(f.option),
                         7 + JsonArrayLen(MapJsonStringLen(f.pros)),
                         7 + JsonArrayLen(MapJsonStringLen(f.cons))>>)
    ELSE RawJsonLen(f)

RECURSIVE MapItemJsonLen(_)
MapItemJsonLen(items) ==
    IF items = <<>> THEN <<>>
    ELSE <<ItemJsonLen(Head(items))>> \o MapItemJsonLen(Tail(items))

\* ADRData as validateADRData returns it, with title "t", status "proposed",
\* context "c", decision "d", no consequences, alternatives or related
\* decisions, and is_final_draft false
ADRDoc(id, dn, td, crit, focus, instr) ==
    [id |-> id, title |-> S_t, status |-> S_proposed, context |-> S_c,
     decision |-> S_d, consequences |-> <<>>, alternatives |-> <<>>,
     related_decisions |-> <<>>,
     draft_number |-> dn, total_drafts |-> td, is_final_draft |-> FALSE,
     is_critique |-> crit, critique_focus |-> focus,
     revision_instructions |-> instr]

\* bytes of JSON.stringify of one ADRData: the keys in the order in which
\* validateADRData sets them, each as "key":value, separated by commas
ADRJsonLen(d) ==
    LET required ==
              5 + JsonStringLen(d.id)
            + 1 + 8 + JsonStringLen(d.title)
            + 1 + 9 + JsonStringLen(d.status)
            + 1 + 10 + JsonStringLen(d.context)
            + 1 + 11 + JsonStringLen(d.decision)
            + 1 + 15 + JsonArrayLen(MapJsonStringLen(d.consequences))
            + 1 + 15 + JsonArrayLen(MapItemJsonLen(d.alternatives))
            + 1 + 20 + JsonArrayLen(MapJsonStringLen(d.related_decisions))
            + 1 + 15 + JsonNumLen(d.draft_number)
            + 1 + 15 + JsonNumLen(d.total_drafts)
            + 1 + 17 + (IF d.is_final_draft THEN 4 ELSE 5)
        optCrit == IF d.is_critique = "absent" THEN 0
                   ELSE 1 + 14 + (IF d.is_critique = "true" THEN 4 ELSE 5)
        optFocus == IF d.critique_focus.has
                    THEN 1 + 17 + JsonStringLen(d.critique_focus.s) ELSE 0
        optInstr == IF d.revision_instructions.has
                    THEN 1 + 24 + JsonStringLen(d.revision_instructions.s) ELSE 0
    IN  2 + required + optCrit + optFocus + optInstr

\* the member "schema":value of an object; JSON.stringify leaves a member
\* out whose value is undefined
SchemaMember(f) == IF f.t = "undefined" THEN <<>> ELSE <<9 + RawJsonLen(f)>>

\* bytes of JSON.stringify of one Parameter, the keys in the order in which
\* validateAPIBlueprintData sets them
ParameterJsonLen(q) ==
    JsonObjectLen(<<7 + JsonStringLen(q.name),
                    11 + JsonStringLen(q.location),
                    11 + JsonBoolLen(q.required),
                    7 + JsonStringLen(q.type),
                    14 + JsonStringLen(q.description)>>)

RequestBodyJsonLen(rb) ==
    JsonObjectLen(<<15 + JsonStringLen(rb.content_type)>>
                  \o SchemaMember(rb.schema)
                  \o <<10 + JsonStringLen(rb.example)>>)

ResponseJsonLen(r) ==
    JsonObjectLen(<<14 + JsonNumLen(r.status_code),
                    14 + JsonStringLen(r.description),
                    15 + JsonStringLen(r.content_type)>>
                  \o SchemaMember(r.schema)
                  \o <<10 + JsonStringLen(r.example)>>)

\* bytes of JSON.stringify of one Endpoint; request_body is left out when it
\* is undefined
EndpointJsonLen(e) ==
    JsonObjectLen(<<7 + JsonStringLen(e.path),
                    9 + JsonStringLen(e.method),
                    14 + JsonStringLen(e.description),
                    13 + JsonArrayLen([i \in 1..Len(e.parameters) |->
                                          ParameterJsonLen(e.parameters[i])])>>
                  \o (IF e.request_body.has
                      THEN <<15 + RequestBodyJsonLen(e.request_body)>>
                      ELSE <<>>)
                  \o <<12 + JsonArrayLen([i \in 1..Len(e.responses) |->
                                             ResponseJsonLen(e.responses[i])])>>)

\* bytes of JSON.stringify of one APIBlueprintData: the keys in the order in
\* which validateAPIBlueprintData sets them
APIJsonLen(d) ==
    JsonObjectLen(
        <<9 + JsonStringLen(d.api_id),
          11 + JsonStringLen(d.api_name),
          14 + JsonStringLen(d.api_version),
          14 + JsonStringLen(d.description),
          12 + JsonArrayLen([i \in 1..Len(d.endpoints) |->
                                EndpointJsonLen(d.endpoints[i])]),
          20 + JsonObjectLen(<<7 + JsonStringLen(d.auth_requirements.type),
                               14 + JsonStringLen(d.auth_requirements.description)>>),
          15 + JsonNumLen(d.draft_number),
          15 + JsonNumLen(d.total_drafts),
          19 + JsonBoolLen(d.next_step_needed)>>
        \o (IF d.is_critique = "absent" THEN <<>>
            ELSE <<14 + JsonBoolLen(d.is_critique = "true")>>)
        \o (IF d.critique_focus.has
            THEN <<17 + JsonStringLen(d.critique_focus.s)>> ELSE <<>>)
        \o (IF d.revision_instructions.has
            THEN <<24 + JsonStringLen(d.revision_instructions.s)>> ELSE <<>>)
        \o (IF d.is_final_draft = "absent" THEN <<>>
            ELSE <<17 + JsonBoolLen(d.is_final_draft = "true")>>))

\* bytes of JSON.stringify of a document of a history: an APIBlueprintData
\* or an ADRData
DocJsonLen(d) ==
    IF "api_id" \in DOMAIN d THEN APIJsonLen(d) ELSE ADRJsonLen(d)

RECURSIVE MapDocJsonLen(_)
MapDocJsonLen(h) ==
    IF h = <<>> THEN <<>> ELSE <<DocJsonLen(Head(h))>> \o MapDocJsonLen(Tail(h))

\* The payload T of a session: {} as createSession leaves it, or an object
\* with a history list (adrHistory, apiHistory) and, for the tools that track
\* critiques, a list of active critique-focus strings (activeCritiques).
EmptyData ==
    [hasHistory |-> FALSE, history |-> <<>>,
     hasCritiques |-> FALSE, critiques |-> <<>>]

\* SessionManager.calculateSize: UTF-8 bytes of JSON.stringify(data)
calculateSize(data) ==
    LET h == IF data.hasHistory
             THEN 13 + JsonArrayLen(MapDocJsonLen(data.history)) ELSE 0
        c == IF data.hasCritiques
             THEN 18 + JsonArrayLen(MapJsonStringLen(data.critiques)) ELSE 0
        sep == IF data.hasHistory /\ data.hasCritiques THEN 1 ELSE 0
    IN  2 + h + sep + c


-----------------------------------------------------------------------------
(* Session records, cells and the in-memory store                          *)

\* the managers of the SessionManagerFactory registry
Managers == {"apiBlueprint", "adr", "codeReview", "implementationStrategy"}

\* the manager whose store holds the entries named by the keys, and whose
\* cleanup passes are modelled
StoreManager == "adr"

\* the entries of the store of manager m, one for each session id.  Every
\* manager of the registry has a store of its own; the entries of the store
\* manager's store are named by their session ids, those of another
\* manager's store by the manager and the session id.
StoreOf(m) ==
    IF m = StoreManager THEN Keys ELSE {m \o ":" \o k : k \in Keys}

Entries == UNION {StoreOf(m) : m \in Managers}

\* mutant: one store shared by the managers
EntryShared(m, id) == id

\* the entry that manager m's storage.get/set/delete(id) addresses: each
\* manager is constructed with a new InMemorySessionStorage
Entry(m, id) == IF m = StoreManager THEN id ELSE m \o ":" \o id

\* the entry of the session id "k1" in the store of the API blueprint manager
ApiEntry == Entry("apiBlueprint", "k1")

Cells == Entries \cup Procs

\* SessionData<T>: the payload and its metadata
Session(data, created, lastAccessed, size, version) ==
    [data |-> data,
     metadata |-> [created |-> created, lastAccessed |-> lastAccessed,
                   size |-> size, version |-> version]]

\* the value of a cell that holds no object
Blank == Session(EmptyData, 0, 0, 0, 0)

\* mutant: the live reference handed over instead of a copy
structuredCloneShared(src, dst) == src

\* structuredClone(x): a new object equal to the one at src.  The new object
\* lives in the cell dst; the result is the reference to it.
structuredClone(src, dst) == dst

\* the cells after the object at src has been copied to where its clone lives
CellsAfterClone(c, src, dst) ==
    [c EXCEPT ![structuredClone(src, dst)] = c[src]]

\* InMemorySessionStorage.get: the reference handed to caller p, or NoRef
InMemoryGet(k, p) ==
    IF sessions[k] # NoRef THEN structuredClone(sessions[k], p) ELSE NoRef

\* InMemorySessionStorage.set: the map entry after set(k, object at ref)
InMemorySet(k, ref) == [sessions EXCEPT ![k] = structuredClone(ref, k)]

\* InMemorySessionStorage.delete
InMemoryDelete(k) == [sessions EXCEPT ![k] = NoRef]

\* mutant: a record exactly maxAge old is evicted too
ExpiredAtMaxAge(rec, maxAge, t) == t - rec.metadata.lastAccessed >= maxAge

\* the test of InMemorySessionStorage.cleanup on one stored session
Expired(rec, maxAge, t) == t - rec.metadata.lastAccessed > maxAge

\* mutant: a pass that deletes nothing
InMemoryCleanupKeeping(m, maxAge, t) == sessions

\* InMemorySessionStorage.cleanup(maxAge) of manager m's store, run at time
\* t: the maps afterwards
InMemoryCleanup(m, maxAge, t) ==
    [k \in Entries |->
        IF /\ k \in StoreOf(m)
           /\ sessions[k] # NoRef
           /\ Expired(cell[sessions[k]], maxAge, t)
        THEN NoRef ELSE sessions[k]]

-----------------------------------------------------------------------------
(* Session manager                                                         *)

\* the payloads that callers pass to updateSession
PayloadHistoryOnly ==
    [hasHistory |-> TRUE, history |-> <<>>,
     hasCritiques |-> FALSE, critiques |-> <<>>]
PayloadOneCritique ==
    [hasHistory |-> TRUE, history |-> <<>>,
     hasCritiques |-> TRUE, critiques |-> <<S_eacute>>]
PayloadTwoCritiques ==
    [hasHistory |-> TRUE, history |-> <<>>,
     hasCritiques |-> TRUE, critiques |-> <<S_quote, S_a>>]
PayloadOneDoc ==
    [hasHistory |-> TRUE,
     history |-> <<ADRDoc(KeyText("k1"), Num(1), Num(3), "true",
                          Some(S_euro_a), Absent)>>,
     hasCritiques |-> FALSE, critiques |-> <<>>]

Payloads ==
    {PayloadHistoryOnly, PayloadOneCritique, PayloadTwoCritiques, PayloadOneDoc}

\* options.maxSessionSize of the manager under test: set so that one payload
\* is exactly at the limit, two are below it and one is above it
MaxSessionSize == calculateSize(PayloadTwoCritiques)

\* mutant: the record created without its version
NewSessionUnversioned(created, lastAccessed) ==
    Session(EmptyData, created, lastAccessed, 0, 0)

\* SessionManager.createSession: the new record.  The clock is read twice,
\* for created and then for lastAccessed.
NewSession(created, lastAccessed) ==
    Session(EmptyData, created, lastAccessed, 0, 1)

\* what the clock may show at the second of two readings in a row, when the
\* first showed t: the same time or the next
ReadAgain(t) == {t2 \in {t, t + 1} : t2 <= MaxTime}

\* mutant: a hit treated as a creation, the created timestamp reset
RefreshedSessionRecreated(rec, t) ==
    [rec EXCEPT !.metadata.lastAccessed = t, !.metadata.created = t]

\* mutant: a hit that does not touch lastAccessed
RefreshedSessionUntouched(rec, t) == rec

\* SessionManager.getSession on a hit: the record with lastAccessed refreshed
RefreshedSession(rec, t) == [rec EXCEPT !.metadata.lastAccessed = t]

\* mutant: a payload exactly at the limit rejected
SizeLimitExceededAtLimit(newSize) == newSize >= maxSessionSize

\* SessionManager.updateSession: the size test
SizeLimitExceeded(newSize) == newSize > maxSessionSize

\* mutant: the payload merged into the stored one ({...data, ...rec.data}),
\* so that a list the record already has is kept as it is stored
UpdatedSessionMerging(rec, data, t, newSize) ==
    [rec EXCEPT !.data =
                    [hasHistory |-> rec.data.hasHistory \/ data.hasHistory,
                     history |-> IF rec.data.hasHistory THEN rec.data.history
                                 ELSE data.history,
                     hasCritiques |-> rec.data.hasCritiques \/ data.hasCritiques,
                     critiques |-> IF rec.data.hasCritiques
                                   THEN rec.data.critiques ELSE data.critiques],
                !.metadata.lastAccessed = t,
                !.metadata.size = newSize]

\* mutant: lastAccessed left as getSession set it
UpdatedSessionKeepingAccess(rec, data, t, newSize) ==
    [rec EXCEPT !.data = data, !.metadata.size = newSize]

\* SessionManager.updateSession: the record after the three assignments
UpdatedSession(rec, data, t, newSize) ==
    [rec EXCEPT !.data = data,
                !.metadata.lastAccessed = t,
                !.metadata.size = newSize]


-----------------------------------------------------------------------------
(* Callers of the session manager.  Every await of the code is a point     *)
(* where another caller or the cleanup pass may run: a call is the         *)
(* sequence of its synchronous stretches.                                  *)

\* lastWrite[k] when nothing has touched k yet
\* no updateSession has written the record since it was created
NoUpdate == [has |-> FALSE, data |-> EmptyData]

NoWrite ==
    [kind |-> "none", arg |-> EmptyData, rec |-> Blank, updated |-> NoUpdate]

\* the last change of a key: its kind, the payload passed, the record
\* written, and the payload of the last successful updateSession on the
\* record now stored
Write(kind, arg, rec, updated) ==
    [kind |-> kind, arg |-> arg, rec |-> rec, updated |-> updated]

\* a caller that is in no call.  Of a call: manager, the manager it was
\* made on; key, the entry of that manager's store it addresses
IdleCall ==
    [op |-> "idle", manager |-> StoreManager, key |-> "k1", arg |-> EmptyData,
     pc |-> "idle", session |-> NoRef, fault |-> "none", expect |-> NoWrite]

\* the first stretch of manager m's getSession, and of its updateSession
\* which begins with getSession, on the entry k of its store: storage.get, up
\* to its await.  c holds the objects as they are when the call is made.
BeginCallOn(c, p, m, k, op, data) ==
    LET ref == InMemoryGet(k, p) IN
    /\ cell' = IF ref = NoRef THEN c
               ELSE CellsAfterClone(c, sessions[k], p)
    /\ call' = [call EXCEPT ![p] =
                    [IdleCall EXCEPT !.op = op, !.manager = m, !.key = k,
                                     !.arg = data,
                                     !.pc = "got", !.session = ref,
                                     !.expect = lastWrite[k]]]

\* the same on key k of the store manager
BeginCall(p, k, op, data) == BeginCallOn(cell, p, StoreManager, k, op, data)

\* getSession(k), up to `await this.storage.get(sessionId)`
CallGetSession(p, k) ==
    /\ call[p].pc = "idle"
    /\ calls < MaxCalls
    /\ calls' = calls + 1
    /\ BeginCall(p, k, "getSession", EmptyData)
    /\ UNCHANGED <<now, sessions, lastWrite, vin, vout, maxSessionSize, hist, req,
                   timers>>

\* updateSession(k, data), up to the await inside its getSession
CallUpdateSession(p, k, data) ==
    /\ call[p].pc = "idle"
    /\ calls < MaxCalls
    /\ calls' = calls + 1
    /\ BeginCall(p, k, "updateSession", data)
    /\ UNCHANGED <<now, sessions, lastWrite, vin, vout, maxSessionSize, hist, req,
                   timers>>

\* getSession after the await: createSession on a miss, the refresh of
\* lastAccessed on a hit, and in both cases storage.set.  createSession reads
\* the clock twice, and the clock may advance between the two readings.
GetSessionResume(p) ==
    /\ call[p].pc = "got"
    /\ now' \in (IF call[p].session = NoRef THEN ReadAgain(now) ELSE {now})
    /\ LET k == call[p].key
           miss == call[p].session = NoRef
           ref == IF miss THEN p ELSE call[p].session
           rec == IF miss THEN NewSession(now, now')
                  ELSE RefreshedSession(cell[ref], now)
           c1 == [cell EXCEPT ![ref] = rec]
       IN
        /\ sessions' = InMemorySet(k, ref)
        /\ cell' = CellsAfterClone(c1, ref, k)
        /\ lastWrite' = [lastWrite EXCEPT ![k] =
                            Write(IF miss THEN "create" ELSE "refresh",
                                  EmptyData, rec,
                                  IF miss THEN NoUpdate
                                  ELSE lastWrite[k].updated)]
        /\ call' = [call EXCEPT ![p].session = ref,
                                ![p].pc = IF call[p].op = "getSession"
                                          THEN "done" ELSE "size"]
    /\ UNCHANGED <<calls, vin, vout, maxSessionSize, hist, req, timers>>

\* updateSession after its getSession: the size check, then the assignments
\* and storage.set
UpdateSessionResume(p) ==
    /\ call[p].pc = "size"
    /\ LET k == call[p].key
           ref == call[p].session
           newSize == calculateSize(call[p].arg)
           rec == UpdatedSession(cell[ref], call[p].arg, now, newSize)
           c1 == [cell EXCEPT ![ref] = rec]
       IN
        IF SizeLimitExceeded(newSize)
        THEN /\ call' = [call EXCEPT ![p].pc = "done",
                                     ![p].fault = "capacity"]
             /\ UNCHANGED <<sessions, cell, lastWrite>>
        ELSE /\ sessions' = InMemorySet(k, ref)
             /\ cell' = CellsAfterClone(c1, ref, k)
             /\ lastWrite' = [lastWrite EXCEPT ![k] =
                                 Write("update", call[p].arg, rec,
                                       [has |-> TRUE, data |-> call[p].arg])]
             /\ call' = [call EXCEPT ![p].pc = "done"]
    /\ UNCHANGED <<now, calls, vin, vout, maxSessionSize, hist, req, timers>>

\* deleteSession(k)
CallDeleteSession(p, k) ==
    /\ call[p].pc = "idle"
    /\ calls < MaxCalls
    /\ calls' = calls + 1
    /\ sessions' = InMemoryDelete(k)
    /\ cell' = [cell EXCEPT ![k] = Blank]
    /\ lastWrite' = [lastWrite EXCEPT ![k] = Write("delete", EmptyData, Blank, NoUpdate)]
    /\ call' = [call EXCEPT ![p] =
                    [IdleCall EXCEPT !.op = "deleteSession", !.key = k,
                                     !.pc = "done"]]
    /\ UNCHANGED <<now, vin, vout, maxSessionSize, hist, req, timers>>

\* getSession(id) on manager m, up to `await this.storage.get(sessionId)`
ManagerGetSession(p, m, id) ==
    /\ call[p].pc = "idle"
    /\ calls < MaxCalls
    /\ calls' = calls + 1
    /\ BeginCallOn(cell, p, m, Entry(m, id), "getSession", EmptyData)
    /\ UNCHANGED <<now, sessions, lastWrite, vin, vout, maxSessionSize, hist, req,
                   timers>>

\* updateSession(id, data) on manager m, up to the await inside its getSession
ManagerUpdateSession(p, m, id, data) ==
    /\ call[p].pc = "idle"
    /\ calls < MaxCalls
    /\ calls' = calls + 1
    /\ BeginCallOn(cell, p, m, Entry(m, id), "updateSession", data)
    /\ UNCHANGED <<now, sessions, lastWrite, vin, vout, maxSessionSize, hist, req,
                   timers>>

\* deleteSession(id) on manager m
ManagerDeleteSession(p, m, id) ==
    /\ call[p].pc = "idle"
    /\ calls < MaxCalls
    /\ calls' = calls + 1
    /\ sessions' = InMemoryDelete(Entry(m, id))
    /\ cell' = [cell EXCEPT ![Entry(m, id)] = Blank]
    /\ lastWrite' = [lastWrite EXCEPT ![Entry(m, id)] =
                        Write("delete", EmptyData, Blank, NoUpdate)]
    /\ call' = [call EXCEPT ![p] =
                    [IdleCall EXCEPT !.op = "deleteSession", !.manager = m,
                                     !.key = Entry(m, id), !.pc = "done"]]
    /\ UNCHANGED <<now, vin, vout, maxSessionSize, hist, req, timers>>

\* the call has returned and its caller has dropped what it held
Return(p) ==
    /\ call[p].pc = "done"
    /\ call' = [call EXCEPT ![p] = IdleCall]
    /\ cell' = [cell EXCEPT ![p] = Blank]
    /\ UNCHANGED <<now, sessions, lastWrite, calls, vin, vout, maxSessionSize, hist, req,
                   timers>>

\* storage.cleanup(maxSessionAge) on manager m's store: one synchronous pass
CleanupPass(m) ==
    /\ sessions' = InMemoryCleanup(m, MaxSessionAge, now)
    /\ cell' = [c \in Cells |->
                   IF c \in Entries /\ sessions[c] = c /\ sessions'[c] = NoRef
                   THEN Blank ELSE cell[c]]
    /\ lastWrite' = [k \in Entries |->
                        IF sessions[k] # NoRef /\ sessions'[k] = NoRef
                        THEN Write("evict", EmptyData, Blank, NoUpdate)
                        ELSE lastWrite[k]]

\* manager m's SessionManager.cleanup, called at any moment
CleanupOf(m) ==
    /\ CleanupPass(m)
    /\ UNCHANGED <<now, call, calls, vin, vout, maxSessionSize, hist, req, timers>>

\* the same on the store manager
Cleanup == CleanupOf(StoreManager)

\* time passes
Tick ==
    /\ now < MaxTime
    /\ now' = now + 1
    /\ UNCHANGED <<sessions, cell, call, lastWrite, calls, vin, vout, maxSessionSize, hist, req,
                   timers>>

\* a manager before its constructor has looked at cleanupIntervalMs
\* armed: cleanupInterval holds an interval.  History: destroyed, destroy()
\* has been called; passes, the passes started so far, modulo 2; failed, the
\* last pass was rejected and logged; afterFailure, the pass before the last
\* one was.
NoTimer ==
    [armed |-> FALSE, destroyed |-> FALSE, passes |-> 0, failed |-> FALSE,
     afterFailure |-> FALSE]

\* startCleanupInterval: cleanupInterval = setInterval(...)
startCleanupInterval(t) == [t EXCEPT !.armed = TRUE]

\* the registry as the factory's constructor leaves it: every manager is
\* constructed with cleanupIntervalMs set
Started == [m \in Managers |-> startCleanupInterval(NoTimer)]

\* the timer record after one more pass
PassStarted(t, failed) ==
    [t EXCEPT !.passes = 1 - @, !.failed = failed, !.afterFailure = t.failed]

\* the interval callback of manager m: this.cleanup() runs the pass on the
\* manager's own store and resolves
TimerCleanup(m) ==
    /\ timers[m].armed
    /\ CleanupPass(m)
    /\ timers' = [timers EXCEPT ![m] = PassStarted(@, FALSE)]
    /\ UNCHANGED <<now, call, calls, vin, vout, maxSessionSize, hist, req>>

\* mutant: a failed pass cancels the interval
CleanupFailedAndCancelled(t) ==
    [PassStarted(t, TRUE) EXCEPT !.armed = FALSE]

\* .catch(err => logger.error('Session cleanup failed:', err)): the pass is
\* recorded as failed, the interval stays
CleanupFailed(t) == PassStarted(t, TRUE)

\* the interval callback of manager m when the storage provider's cleanup
\* rejects: the rejection is caught and logged
TimerCleanupFails(m) ==
    /\ timers[m].armed
    /\ timers' = [timers EXCEPT ![m] = CleanupFailed(@)]
    /\ UNCHANGED <<now, sessions, cell, call, lastWrite, calls, vin, vout,
                   maxSessionSize, hist, req>>

\* mutant: destroy forgets to clear the interval
destroyLeavingInterval(t) == t

\* SessionManager.destroy: clearInterval and cleanupInterval = null, when
\* there is an interval
destroy(t) == IF t.armed THEN [t EXCEPT !.armed = FALSE] ELSE t

\* manager.destroy()
Destroy(m) ==
    /\ timers' = [timers EXCEPT ![m] = [destroy(@) EXCEPT !.destroyed = TRUE]]
    /\ UNCHANGED <<now, sessions, cell, call, lastWrite, calls, vin, vout,
                   maxSessionSize, hist, req>>

\* SessionManagerFactory.cleanup: destroy() on every manager of the registry
FactoryCleanup ==
    /\ timers' = [m \in Managers |->
                      [destroy(timers[m]) EXCEPT !.destroyed = TRUE]]
    /\ UNCHANGED <<now, sessions, cell, call, lastWrite, calls, vin, vout,
                   maxSessionSize, hist, req>>

NoInput == [kind |-> "none"]

\* the module-level state of the tools when the server starts: thoughtHistory
\* and branches of the reasoning-chain tool, reviewHistory and activeCritiques
\* of the code review lens, strategyHistory and activeCritiques of the
\* strategy planner.  A key not yet in a Record has the empty list here.
NoHistory ==
    [thoughtHistory |-> <<>>, branches |-> <<>>,
     reviewHistory |-> [k \in Keys |-> <<>>],
     reviewCritiques |-> [k \in Keys |-> <<>>],
     strategyHistory |-> [k \in Keys |-> <<>>],
     strategyCritiques |-> [k \in Keys |-> <<>>]]

\* no fault
NoFault == [code |-> "none", message |-> "", arg |-> <<>>]

\* a caller with no tool request in progress
\* Of a request of a session-backed handler: read, the session as getSession
\* returned it; session, the same object after the handler's pushes
IdleRequest ==
    [pc |-> "idle", kind |-> "none", input |-> NoInput, doc |-> NoInput,
     read |-> Blank, session |-> Blank, response |-> NoInput,
     error |-> NoFault]

Init ==
    /\ now = 0
    /\ sessions = [k \in Entries |-> NoRef]
    /\ cell = [c \in Cells |-> Blank]
    /\ call = [p \in Procs |-> IdleCall]
    /\ lastWrite = [k \in Entries |-> NoWrite]
    /\ calls = 0
    /\ vin = NoInput
    /\ vout = NoInput
    /\ maxSessionSize = MaxSessionSize
    /\ hist = NoHistory
    /\ req = [p \in Procs |-> IdleRequest]
    /\ timers = Started

Next ==
    \/ \E p \in SeqProcs, k \in Keys : CallGetSession(p, k)
    \/ \E p \in SeqProcs, k \in Keys, data \in Payloads : CallUpdateSession(p, k, data)
    \/ \E p \in SeqProcs : GetSessionResume(p)
    \/ \E p \in SeqProcs : UpdateSessionResume(p)
    \/ \E p \in SeqProcs, k \in Keys : CallDeleteSession(p, k)
    \/ \E p \in SeqProcs : Return(p)
    \/ Cleanup
    \/ Tick

Spec == Init /\ [][Next]_vars


-----------------------------------------------------------------------------
(* Properties of the session manager                                       *)

\* the UTF-8 byte length of JSON.stringify of each payload, counted by hand:
\* {"adrHistory":[]} is 17 bytes, with "activeCritiques":["é"] 42 bytes,
\* with "activeCritiques":["\"","a"] 46 bytes, and the one-document payload
\* 248 bytes
SerializedBytes(data) ==
    CASE data = PayloadHistoryOnly -> 17
      [] data = PayloadOneCritique -> 42
      [] data = PayloadTwoCritiques -> 46
      [] data = PayloadOneDoc -> 248

\* the record a finished getSession call returned to caller p
Returned(p) == cell[call[p].session]

\* caller p's getSession has returned
GetReturned(p) ==
    /\ call[p].op = "getSession"
    /\ call[p].pc = "done"

\* C1: a getSession that reads key k when the last mutation of k was a
\* successful updateSession(k, D) returns a record whose data is D and whose
\* metadata.size is the UTF-8 byte length of D's JSON serialization.
C1_RoundTrip ==
    \A p \in Procs :
        (GetReturned(p) /\ call[p].expect.kind = "update") =>
            /\ Returned(p).data = call[p].expect.arg
            /\ Returned(p).metadata.size = SerializedBytes(call[p].expect.arg)

C1_Witness ==
    \E p \in Procs :
        /\ GetReturned(p)
        /\ call[p].expect.kind = "update"
        /\ call[p].expect.arg = PayloadOneCritique
        /\ Returned(p).metadata.size = 42

\* C2: an updateSession whose payload is larger than maxSessionSize ends with
\* a capacity fault, one whose payload is at most maxSessionSize (exactly
\* maxSessionSize included) ends without a fault; and after a capacity fault
\* the data stored under the key is the data that was stored when the call
\* read the key (the empty payload of the record the call itself created,
\* when there was none), as long as nothing else has written the key since.
C2_Capacity ==
    \A p \in Procs :
        (call[p].op = "updateSession" /\ call[p].pc = "done") =>
            LET k == call[p].key
                before == call[p].expect
                existed == before.kind \in {"create", "refresh", "update"}
            IN
            /\ (call[p].fault = "capacity") <=>
                   (SerializedBytes(call[p].arg) > MaxSessionSize)
            /\ call[p].fault \in {"none", "capacity"}
            /\ (call[p].fault = "capacity"
                    /\ lastWrite[k].kind \in {"create", "refresh"}) =>
                   /\ sessions[k] # NoRef
                   /\ cell[sessions[k]].data =
                          (IF existed THEN before.rec.data ELSE EmptyData)
                   /\ cell[sessions[k]].metadata.size =
                          (IF existed THEN before.rec.metadata.size ELSE 0)

C2_Witness ==
    \E p \in Procs :
        /\ call[p].op = "updateSession" /\ call[p].pc = "done"
        /\ call[p].fault = "capacity"
        /\ call[p].expect.kind = "update"
        /\ sessions[call[p].key] # NoRef
        /\ cell[sessions[call[p].key]].data = PayloadTwoCritiques
        /\ cell[sessions[call[p].key]].metadata.size = MaxSessionSize
        /\ lastWrite[call[p].key].kind = "refresh"

\* C3: a getSession that reads key k when the last mutation of k was its
\* creation by an earlier call raises no error and returns the version and the
\* created timestamp of the record that was created; afterwards the key still
\* holds that one record.
C3_MissIdempotent ==
    \A p \in Procs :
        (GetReturned(p) /\ call[p].expect.kind = "create") =>
            LET k == call[p].key
                first == call[p].expect.rec
            IN
            /\ call[p].fault = "none"
            /\ Returned(p).metadata.version = first.metadata.version
            /\ Returned(p).metadata.created = first.metadata.created
            /\ Returned(p).metadata.version = 1
            /\ lastWrite[k].kind = "refresh" =>
                   /\ sessions[k] # NoRef
                   /\ cell[sessions[k]].metadata.created = first.metadata.created
                   /\ cell[sessions[k]].metadata.version = first.metadata.version

C3_Witness ==
    \E p \in Procs :
        /\ GetReturned(p)
        /\ call[p].expect.kind = "create"
        /\ lastWrite[call[p].key].kind = "refresh"
        /\ Returned(p).metadata.lastAccessed > Returned(p).metadata.created

\* C4: a cleanup pass run at time now removes every record with
\* now - lastAccessed > maxAge and leaves every other record in place with
\* its data and metadata unchanged.
C4_Eviction ==
    [][Cleanup =>
        \A k \in Keys :
            sessions[k] # NoRef =>
                LET rec == cell[sessions[k]] IN
                IF now - rec.metadata.lastAccessed > MaxSessionAge
                THEN sessions'[k] = NoRef
                ELSE /\ sessions'[k] # NoRef
                     /\ cell'[sessions'[k]] = rec]_vars

C4_Witness ==
    /\ lastWrite["k1"].kind = "evict"
    /\ sessions["k1"] = NoRef
    /\ sessions["k2"] # NoRef
    /\ now - cell[sessions["k2"]].metadata.lastAccessed = MaxSessionAge

-----------------------------------------------------------------------------
(* Untyped input and the JavaScript coercions the validators apply          *)

\* One property of the untyped input object: not there at all ("absent",
\* so that `"x" in data` is false), or there with a value that is undefined,
\* null, a boolean, an integer or a string.
RawAbsent == [t |-> "absent", b |-> FALSE, n |-> 0, s |-> <<>>]
RawUndefined == [t |-> "undefined", b |-> FALSE, n |-> 0, s |-> <<>>]
RawNull == [t |-> "null", b |-> FALSE, n |-> 0, s |-> <<>>]
RawBool(b) == [t |-> "bool", b |-> b, n |-> 0, s |-> <<>>]
RawNum(n) == [t |-> "num", b |-> FALSE, n |-> n, s |-> <<>>]
RawStr(s) == [t |-> "str", b |-> FALSE, n |-> 0, s |-> s]
\* the empty plain object {} (a schema: the validators do not look at its
\* content)
RawObject == [t |-> "object", b |-> FALSE, n |-> 0, s |-> <<>>]

\* "x" in data
In(f) == f.t # "absent"

S_undefined == <<117, 110, 100, 101, 102, 105, 110, 101, 100>>
S_null == <<110, 117, 108, 108>>
S_true == <<116, 114, 117, 101>>
S_false == <<102, 97, 108, 115, 101>>
S_space == <<32>>
S_five == <<53>>                    \* "5"
S_object == <<91, 111, 98, 106, 101, 99, 116, 32, 79, 98, 106, 101, 99, 116, 93>>
                                    \* "[object Object]"

\* Boolean(x)
JsBoolean(f) ==
    CASE f.t = "bool" -> f.b
      [] f.t = "num" -> f.n # 0
      [] f.t = "str" -> f.s # <<>>
      [] f.t = "object" -> TRUE
      [] OTHER -> FALSE               \* undefined, null, a missing property

\* String(x)
JsString(f) ==
    CASE f.t = "str" -> f.s
      [] f.t = "num" -> NumText(Num(f.n))
      [] f.t = "bool" -> IF f.b THEN S_true ELSE S_false
      [] f.t = "null" -> S_null
      [] f.t = "object" -> S_object
      [] OTHER -> S_undefined         \* undefined, a missing property

IsDigits(s) == \A i \in 1..Len(s) : s[i] >= 48 /\ s[i] <= 57

RECURSIVE DigitsValue(_)
\* the integer of a text of at most five digits
DigitsValue(s) ==
    IF s = <<>> THEN 0 ELSE 10 * DigitsValue(SubSeq(s, 1, Len(s) - 1)) + (s[Len(s)] - 48)

\* the white space and line terminators of the language (WhiteSpace and
\* LineTerminator of ECMA-262: TAB, LF, VT, FF, CR, SP, NBSP, the other
\* space separators, LS, PS and ZWNBSP), which String.prototype.trim and
\* Number() strip
WhiteSpace ==
    {9, 10, 11, 12, 13, 32, 160, 5760, 8232, 8233, 8239, 8287, 12288, 65279}
        \cup (8192..8202)

\* s.trim() === ""
IsBlank(s) == \A i \in 1..Len(s) : s[i] \in WhiteSpace

RECURSIVE TrimStart(_)
TrimStart(s) ==
    IF s # <<>> /\ Head(s) \in WhiteSpace THEN TrimStart(Tail(s)) ELSE s

RECURSIVE TrimEnd(_)
TrimEnd(s) ==
    IF s # <<>> /\ s[Len(s)] \in WhiteSpace
    THEN TrimEnd(SubSeq(s, 1, Len(s) - 1)) ELSE s

\* s.trim()
Trim(s) == TrimEnd(TrimStart(s))

\* the first position of s that holds a character of cs, 0 when none does
IndexOf(s, cs) ==
    IF \E i \in 1..Len(s) : s[i] \in cs
    THEN CHOOSE i \in 1..Len(s) :
             s[i] \in cs /\ \A j \in 1..(i - 1) : s[j] \notin cs
    ELSE 0

RECURSIVE StripLeadingZeros(_)
StripLeadingZeros(s) ==
    IF s # <<>> /\ Head(s) = 48 THEN StripLeadingZeros(Tail(s)) ELSE s

\* the value of a digit of a hexadecimal, octal or binary literal
DigitValue(c) ==
    IF c >= 48 /\ c <= 57 THEN c - 48
    ELSE IF c >= 97 /\ c <= 102 THEN c - 87
    ELSE IF c >= 65 /\ c <= 70 THEN c - 55
    ELSE 16

\* the digits of radix * n for the integer n with the digits ds
TimesRadix(ds, radix) ==
    IF radix = 16 THEN IntTwice(IntTwice(IntTwice(IntTwice(ds))))
    ELSE IF radix = 8 THEN IntTwice(IntTwice(IntTwice(ds)))
    ELSE IntTwice(ds)

RECURSIVE RadixValue(_, _)
\* the decimal digits of the integer that the digits s write in the radix
RadixValue(s, radix) ==
    IF s = <<>> THEN <<>>
    ELSE Only({IntAdd(TimesRadix(v, radix), DigitValue(s[Len(s)])) :
                  v \in {RadixValue(SubSeq(s, 1, Len(s) - 1), radix)}})

\* the radix a literal's prefix names: 0x, 0o, 0b in either case; 0 when
\* the text has no such prefix
PrefixRadix(t) ==
    IF Len(t) < 2 \/ t[1] # 48 THEN 0
    ELSE IF t[2] \in {120, 88} THEN 16
    ELSE IF t[2] \in {111, 79} THEN 8
    ELSE IF t[2] \in {98, 66} THEN 2
    ELSE 0

\* the value of the digits of an exponent part.  It is cut at 99999: the
\* decimal of a text of fewer characters is beyond every double either way
ExponentValue(ds) ==
    IF Len(StripLeadingZeros(ds)) > 5 THEN 99999
    ELSE DigitsValue(StripLeadingZeros(ds))

\* What a literal denotes: no number, an infinity, or the exact decimal x
\* with a sign
NoLiteral == [kind |-> "nan", sign |-> 1, x |-> ZeroDecimal]
InfinityLiteral(sign) == [kind |-> "inf", sign |-> sign, x |-> ZeroDecimal]
Literal(sign, x) == [kind |-> "dec", sign |-> sign, x |-> x]

\* the decimal int.frac with the exponent x
DecimalOfParts(sign, int, frac, x) ==
    Literal(sign, Decimal([i \in 1..(Len(int) + Len(frac)) |->
                              (int \o frac)[i] - 48],
                          Len(int) + x))

\* the literal with the integer part int, the fraction frac and, when
\* hasExp, the exponent part expo (a sign or none, then digits)
DecimalLiteral(sign, int, frac, hasExp, expo) ==
    IF /\ IsDigits(int) /\ IsDigits(frac)
       /\ Len(int) + Len(frac) >= 1
       /\ hasExp => /\ expo # <<>>
                    /\ IF Head(expo) \in {43, 45}
                       THEN Len(expo) > 1 /\ IsDigits(Tail(expo))
                       ELSE IsDigits(expo)
    THEN DecimalOfParts(sign, int, frac,
             IF expo = <<>> THEN 0
             ELSE (IF Head(expo) = 45 THEN -1 ELSE 1)
                  * ExponentValue(IF Head(expo) \in {43, 45}
                                  THEN Tail(expo) ELSE expo))
    ELSE NoLiteral

\* the literal with the mantissa mant, whose decimal point is at position
\* dot (0: none)
DecimalAtPoint(sign, mant, dot, hasExp, expo) ==
    DecimalLiteral(sign,
                   IF dot = 0 THEN mant ELSE SubSeq(mant, 1, dot - 1),
                   IF dot = 0 THEN <<>> ELSE SubSeq(mant, dot + 1, Len(mant)),
                   hasExp, expo)

\* the literal with the mantissa mant and, when hasExp, the exponent part
DecimalOfMantissa(sign, mant, hasExp, expo) ==
    DecimalAtPoint(sign, mant, IndexOf(mant, {46}), hasExp, expo)

\* the literal t whose exponent indicator is at position ePos (0: none)
DecimalAtExponent(sign, t, ePos) ==
    DecimalOfMantissa(sign,
                      IF ePos = 0 THEN t ELSE SubSeq(t, 1, ePos - 1),
                      ePos # 0,
                      IF ePos = 0 THEN <<>> ELSE SubSeq(t, ePos + 1, Len(t)))

\* StrUnsignedDecimalLiteral: Infinity, or digits with an optional fraction
\* and an optional exponent; at least one digit before the exponent
UnsignedDecimal(sign, t) ==
    IF t = <<73, 110, 102, 105, 110, 105, 116, 121>> THEN InfinityLiteral(sign)
    ELSE DecimalAtExponent(sign, t, IndexOf(t, {101, 69}))

\* the integer literal with the given digits after its prefix
RadixLiteral(digits, radix) ==
    IF digits # <<>> /\ \A i \in 1..Len(digits) : DigitValue(digits[i]) < radix
    THEN Literal(1, IntDecimal(RadixValue(digits, radix)))
    ELSE NoLiteral

\* StrNumericLiteral, or the empty text
StrNumericLiteral(t) ==
    IF t = <<>> THEN Literal(1, ZeroDecimal)
    ELSE IF PrefixRadix(t) # 0
         THEN RadixLiteral(SubSeq(t, 3, Len(t)), PrefixRadix(t))
    ELSE UnsignedDecimal(IF Head(t) = 45 THEN -1 ELSE 1,
                         IF Head(t) \in {43, 45} THEN Tail(t) ELSE t)

\* the number that a literal denotes
NumberOf(l) ==
    IF l.kind = "nan" THEN NaN
    ELSE IF l.kind = "inf" THEN Infinite(l.sign)
    ELSE Dec(l.sign, l.x)

\* StringToNumber: the text without the white space around it is empty (0),
\* a hexadecimal, octal or binary integer literal without sign, or a decimal
\* literal with an optional sign; any other text is NaN
StringToNumber(s) == NumberOf(StrNumericLiteral(Trim(s)))

\* Number(x)
JsNumber(f) ==
    CASE f.t = "num" -> Num(f.n)
      [] f.t = "bool" -> Num(IF f.b THEN 1 ELSE 0)
      [] f.t = "null" -> Num(0)
      [] f.t = "str" -> StringToNumber(f.s)
      [] OTHER -> NaN                 \* undefined, a missing property, an object

\* if ("x" in data) typed.x = Boolean(data.x)
OptBoolean(f) ==
    IF In(f) THEN (IF JsBoolean(f) THEN "true" ELSE "false") ELSE "absent"

\* if ("x" in data) typed.x = String(data.x)
OptString(f) == IF In(f) THEN Some(JsString(f)) ELSE Absent

\* if ("x" in data) typed.x = Number(data.x)
OptNumber(f) ==
    IF In(f) THEN [has |-> TRUE, num |-> JsNumber(f)]
    ELSE [has |-> FALSE, num |-> Num(0)]

\* mutant: only a missing string counts, the empty string passes
FalsyWhenMissing(o) == ~o.has

\* !typed.x for an optional string: undefined or the empty string
Falsy(o) == ~o.has \/ o.s = <<>>

\* the outcome of a validator: the typed document, or the Error it throws
Accept(doc) == [ok |-> TRUE, error |-> "", arg |-> <<>>, doc |-> doc]
Throw(msg) == [ok |-> FALSE, error |-> msg, arg |-> <<>>]
ThrowNaming(msg, arg) == [ok |-> FALSE, error |-> msg, arg |-> arg]


\* An array-valued property of the input: missing, present but no array, or
\* an array with the given elements
ArrAbsent == [t |-> "absent", items |-> <<>>]
ArrOther == [t |-> "other", items |-> <<>>]
Arr(items) == [t |-> "array", items |-> items]

\* Array.isArray(x) ? x : []
ArrayOrEmpty(f) == IF f.t = "array" THEN f.items ELSE <<>>

\* items.map(String)
RECURSIVE MapJsString(_)
MapJsString(items) ==
    IF items = <<>> THEN <<>> ELSE <<JsString(Head(items))>> \o MapJsString(Tail(items))

\* the checks of a validator, in the order of the code: pairs of a condition
\* under which the validator throws, and the Error thrown.  The first
\* condition that is true decides.
Failing(checks) == {i \in 1..Len(checks) : checks[i][1]}
FirstFailure(checks) ==
    checks[CHOOSE i \in Failing(checks) : \A j \in Failing(checks) : i <= j][2]

\* data.is_final_draft ?? false, then Boolean(...)
FinalDraft(f) == IF f.t \in {"absent", "undefined", "null"} THEN FALSE ELSE JsBoolean(f)

-----------------------------------------------------------------------------
(* validateThoughtData (reasoning-chain tool)                               *)

validateThoughtData(data) ==
    IF \/ ~data.obj
       \/ ~In(data.reasoning_chain)
       \/ ~In(data.next_step_needed)
       \/ ~In(data.draft_number)
       \/ ~In(data.total_drafts)
    THEN Throw("Missing required fields")
    ELSE
    LET thoughtData ==
            [reasoning_chain |-> ArrayOrEmpty(data.reasoning_chain),
             next_step_needed |-> JsBoolean(data.next_step_needed),
             draft_number |-> JsNumber(data.draft_number),
             total_drafts |-> JsNumber(data.total_drafts),
             is_final_draft |-> FinalDraft(data.is_final_draft),
             is_critique |-> OptBoolean(data.is_critique),
             critique_focus |-> OptString(data.critique_focus),
             revision_instructions |-> OptString(data.revision_instructions),
             step_to_review |-> OptNumber(data.step_to_review)]
        checks == <<
            <<Len(thoughtData.reasoning_chain) = 0, "Invalid reasoning chain">>,
            <<NumLe(thoughtData.draft_number, Num(0)),
              "Draft number must be positive">>,
            <<NumLe(thoughtData.total_drafts, Num(0)),
              "Total drafts must be positive">>,
            <<NumGt(thoughtData.draft_number, thoughtData.total_drafts),
              "Draft number cannot exceed total drafts">>,
            <<thoughtData.is_critique = "true" /\ Falsy(thoughtData.critique_focus),
              "Critique focus required when is_critique is true">> >>
    IN  IF Failing(checks) # {} THEN Throw(FirstFailure(checks))
        ELSE Accept(thoughtData)

-----------------------------------------------------------------------------
(* validateADRData (architecture decision recorder)                         *)

validStatuses == {S_proposed, S_accepted, S_rejected, S_deprecated, S_superseded}

\* !s || s.trim() === ""
EmptyOrBlank(s) == s = <<>> \/ IsBlank(s)

validateADRData(data) ==
    IF \/ ~data.obj
       \/ ~In(data.id)
       \/ ~In(data.title)
       \/ ~In(data.status)
       \/ ~In(data.context)
       \/ ~In(data.decision)
       \/ ~In(data.consequences)
       \/ ~In(data.alternatives)
       \/ ~In(data.related_decisions)
       \/ ~In(data.draft_number)
       \/ ~In(data.total_drafts)
    THEN Throw("Missing required fields")
    ELSE
    LET adrData ==
            [id |-> JsString(data.id),
             title |-> JsString(data.title),
             status |-> JsString(data.status),
             context |-> JsString(data.context),
             decision |-> JsString(data.decision),
             consequences |-> MapJsString(ArrayOrEmpty(data.consequences)),
             alternatives |-> ArrayOrEmpty(data.alternatives),
             related_decisions |-> MapJsString(ArrayOrEmpty(data.related_decisions)),
             draft_number |-> JsNumber(data.draft_number),
             total_drafts |-> JsNumber(data.total_drafts),
             is_final_draft |-> FinalDraft(data.is_final_draft),
             is_critique |-> OptBoolean(data.is_critique),
             critique_focus |-> OptString(data.critique_focus),
             revision_instructions |-> OptString(data.revision_instructions)]
        checks == <<
            <<EmptyOrBlank(adrData.id), "Invalid ID">>,
            <<EmptyOrBlank(adrData.title), "Invalid title">>,
            <<adrData.status \notin validStatuses, "Invalid status">>,
            <<EmptyOrBlank(adrData.context), "Invalid context">>,
            <<EmptyOrBlank(adrData.decision), "Invalid decision">>,
            <<NumLe(adrData.draft_number, Num(0)),
              "Draft number must be positive">>,
            <<NumLe(adrData.total_drafts, Num(0)),
              "Total drafts must be positive">>,
            <<NumGt(adrData.draft_number, adrData.total_drafts),
              "Draft number cannot exceed total drafts">>,
            <<adrData.is_critique = "true" /\ Falsy(adrData.critique_focus),
              "Critique focus required when is_critique is true">>,
            <<adrData.is_critique = "false" /\ Falsy(adrData.revision_instructions),
              "Revision instructions required when is_critique is false">> >>
    IN  IF Failing(checks) # {} THEN Throw(FirstFailure(checks))
        ELSE Accept(adrData)


-----------------------------------------------------------------------------
(* validateCodeReviewData (code review lens)                                *)

validDimensions == {
    <<112, 101, 114, 102, 111, 114, 109, 97, 110, 99, 101>>,   \* "performance"
    <<115, 101, 99, 117, 114, 105, 116, 121>>,   \* "security"
    <<109, 97, 105, 110, 116, 97, 105, 110, 97, 98, 105, 108, 105, 116, 121>>,   \* "maintainability"
    <<114, 101, 97, 100, 97, 98, 105, 108, 105, 116, 121>>,   \* "readability"
    <<116, 101, 115, 116, 97, 98, 105, 108, 105, 116, 121>>,   \* "testability"
    <<99, 111, 114, 114, 101, 99, 116, 110, 101, 115, 115>>,   \* "correctness"
    <<100, 111, 99, 117, 109, 101, 110, 116, 97, 116, 105, 111, 110>>   \* "documentation"
    }

validSeverities == {
    <<105, 110, 102, 111>>,   \* "info"
    <<115, 117, 103, 103, 101, 115, 116, 105, 111, 110>>,   \* "suggestion"
    <<119, 97, 114, 110, 105, 110, 103>>,   \* "warning"
    <<99, 114, 105, 116, 105, 99, 97, 108>>   \* "critical"
    }

S_security == <<115, 101, 99, 117, 114, 105, 116, 121>>
S_warning == <<119, 97, 114, 110, 105, 110, 103>>
S_bogus == <<98, 111, 103, 117, 115>>
S_x_py == <<120, 46, 112, 121>>
S_y_py == <<121, 46, 112, 121>>

\* One element of data.files and one of data.findings, as objects of the
\* untyped input.  (Elements that are not objects are not modelled.)
RawFile(path, content, language, line_count) ==
    [path |-> path, content |-> content, language |-> language,
     line_count |-> line_count]
RawFinding(file, line_range, dimension, severity, description) ==
    [file |-> file, line_range |-> line_range, dimension |-> dimension,
     severity |-> severity, description |-> description,
     suggested_fix |-> RawAbsent, justification |-> RawAbsent]

\* Number(line_range[i]) when line_range is an array of two elements
RangeStart(f) == IF Len(f.line_range.items) >= 1
                 THEN JsNumber(f.line_range.items[1]) ELSE NaN
RangeEnd(f) == IF Len(f.line_range.items) >= 2
               THEN JsNumber(f.line_range.items[2]) ELSE NaN

\* the loop over data.review_dimensions: one check per element
RECURSIVE DimensionChecks(_)
DimensionChecks(dims) ==
    IF dims = <<>> THEN <<>>
    ELSE << <<JsString(Head(dims)) \notin validDimensions,
              "Invalid review dimension", JsString(Head(dims))>> >>
         \o DimensionChecks(Tail(dims))

\* the loop over data.files: the checks on each element, in order
RECURSIVE FileChecks(_)
FileChecks(files) ==
    IF files = <<>> THEN <<>>
    ELSE LET file == Head(files)
             lineCount == JsNumber(file.line_count)
         IN << <<\/ ~In(file.path) \/ ~In(file.content)
                 \/ ~In(file.language) \/ ~In(file.line_count),
                 "Each file must have path, content, language, and line_count",
                 <<>> >>,
               <<lineCount.nan \/ NumLt(lineCount, Num(0)),
                 "Line count must be a non-negative number", <<>> >> >>
            \o FileChecks(Tail(files))

\* the loop over data.findings: the checks on each element, in order
RECURSIVE FindingChecks(_)
FindingChecks(findings) ==
    IF findings = <<>> THEN <<>>
    ELSE LET finding == Head(findings)
             startLine == RangeStart(finding)
             endLine == RangeEnd(finding)
         IN << <<\/ ~In(finding.file) \/ ~In(finding.line_range)
                 \/ ~In(finding.dimension) \/ ~In(finding.severity)
                 \/ ~In(finding.description),
                 "Each finding must have file, line_range, dimension, severity, and description",
                 <<>> >>,
               <<\/ finding.line_range.t # "array"
                 \/ Len(finding.line_range.items) # 2,
                 "Line range must be an array of two numbers [start, end]",
                 <<>> >>,
               <<\/ startLine.nan \/ endLine.nan
                 \/ NumLt(startLine, Num(1)) \/ NumLt(endLine, startLine),
                 "Invalid line range: start line must be >= 1 and end line must be >= start line",
                 <<>> >>,
               <<JsString(finding.dimension) \notin validDimensions,
                 "Invalid finding dimension", JsString(finding.dimension)>>,
               <<JsString(finding.severity) \notin validSeverities,
                 "Invalid finding severity", JsString(finding.severity)>> >>
            \o FindingChecks(Tail(findings))

RECURSIVE TypedFiles(_)
TypedFiles(files) ==
    IF files = <<>> THEN <<>>
    ELSE << [path |-> JsString(Head(files).path),
             content |-> JsString(Head(files).content),
             language |-> JsString(Head(files).language),
             line_count |-> JsNumber(Head(files).line_count)] >>
         \o TypedFiles(Tail(files))

RECURSIVE TypedFindings(_)
TypedFindings(findings) ==
    IF findings = <<>> THEN <<>>
    ELSE << [file |-> JsString(Head(findings).file),
             line_range |-> <<RangeStart(Head(findings)), RangeEnd(Head(findings))>>,
             dimension |-> JsString(Head(findings).dimension),
             severity |-> JsString(Head(findings).severity),
             description |-> JsString(Head(findings).description),
             suggested_fix |-> OptString(Head(findings).suggested_fix),
             justification |-> OptString(Head(findings).justification)] >>
         \o TypedFindings(Tail(findings))

\* files.map(f => f.path), as a set
FilePaths(files) == {files[i].path : i \in 1..Len(files)}

\* mutant: only the first finding's file is looked up
ReferenceChecksFirstOnly(findings, filePaths) ==
    IF findings = <<>> THEN <<>>
    ELSE << <<Head(findings).file \notin filePaths,
              "Finding references file which is not in the files array",
              Head(findings).file>> >>

\* the loop over the typed findings that checks each finding's file
RECURSIVE ReferenceChecks(_, _)
ReferenceChecks(findings, filePaths) ==
    IF findings = <<>> THEN <<>>
    ELSE << <<Head(findings).file \notin filePaths,
              "Finding references file which is not in the files array",
              Head(findings).file>> >>
         \o ReferenceChecks(Tail(findings), filePaths)

\* the first of the checks that fails, as the Error thrown
ThrowFirst(checks) ==
    LET c == checks[CHOOSE i \in Failing(checks) : \A j \in Failing(checks) : i <= j]
    IN  ThrowNaming(c[2], c[3])

validateCodeReviewData(data) ==
    IF \/ ~data.obj
       \/ ~In(data.review_id)
       \/ ~In(data.pull_request_id)
       \/ ~In(data.repository)
       \/ ~In(data.review_dimensions)
       \/ ~In(data.files)
       \/ ~In(data.findings)
       \/ ~In(data.draft_number)
       \/ ~In(data.total_drafts)
       \/ ~In(data.next_step_needed)
    THEN Throw("Missing required fields")
    ELSE
    LET dimsOk == data.review_dimensions.t = "array"
        filesOk == data.files.t = "array"
        findingsOk == data.findings.t = "array"
        files == TypedFiles(ArrayOrEmpty(data.files))
        findings == TypedFindings(ArrayOrEmpty(data.findings))
        reviewData ==
            [review_id |-> JsString(data.review_id),
             pull_request_id |-> JsString(data.pull_request_id),
             repository |-> JsString(data.repository),
             review_dimensions |-> MapJsString(ArrayOrEmpty(data.review_dimensions)),
             files |-> files,
             findings |-> findings,
             draft_number |-> JsNumber(data.draft_number),
             total_drafts |-> JsNumber(data.total_drafts),
             next_step_needed |-> JsBoolean(data.next_step_needed),
             is_critique |-> OptBoolean(data.is_critique),
             critique_focus |-> OptString(data.critique_focus),
             revision_instructions |-> OptString(data.revision_instructions),
             is_final_draft |-> OptBoolean(data.is_final_draft)]
        checks ==
            << <<~dimsOk, "Review dimensions must be an array", <<>> >> >>
            \o DimensionChecks(ArrayOrEmpty(data.review_dimensions))
            \o << <<~filesOk, "Files must be an array", <<>> >> >>
            \o FileChecks(ArrayOrEmpty(data.files))
            \o << <<~findingsOk, "Findings must be an array", <<>> >> >>
            \o FindingChecks(ArrayOrEmpty(data.findings))
            \o << <<NumLe(reviewData.draft_number, Num(0)),
                    "Draft number must be positive", <<>> >>,
                  <<NumLe(reviewData.total_drafts, Num(0)),
                    "Total drafts must be positive", <<>> >>,
                  <<NumGt(reviewData.draft_number, reviewData.total_drafts),
                    "Draft number cannot exceed total drafts", <<>> >>,
                  <<reviewData.is_critique = "true" /\ Falsy(reviewData.critique_focus),
                    "Critique focus required when is_critique is true", <<>> >>,
                  <<reviewData.is_critique = "false"
                        /\ Falsy(reviewData.revision_instructions),
                    "Revision instructions required when is_critique is false",
                    <<>> >> >>
            \o ReferenceChecks(findings, FilePaths(files))
    IN  IF Failing(checks) # {} THEN ThrowFirst(checks)
        ELSE Accept(reviewData)


-----------------------------------------------------------------------------
(* validateAPIBlueprintData (API blueprint designer)                        *)

validMethods == {
    <<71, 69, 84>>,   \* "GET"
    <<80, 79, 83, 84>>,   \* "POST"
    <<80, 85, 84>>,   \* "PUT"
    <<68, 69, 76, 69, 84, 69>>,   \* "DELETE"
    <<80, 65, 84, 67, 72>>,   \* "PATCH"
    <<79, 80, 84, 73, 79, 78, 83>>,   \* "OPTIONS"
    <<72, 69, 65, 68>>   \* "HEAD"
    }

validParamLocations == {
    <<112, 97, 116, 104>>,   \* "path"
    <<113, 117, 101, 114, 121>>,   \* "query"
    <<104, 101, 97, 100, 101, 114>>,   \* "header"
    <<99, 111, 111, 107, 105, 101>>   \* "cookie"
    }

validAuthTypes == {
    <<110, 111, 110, 101>>,   \* "none"
    <<98, 97, 115, 105, 99>>,   \* "basic"
    <<98, 101, 97, 114, 101, 114>>,   \* "bearer"
    <<97, 112, 105, 95, 107, 101, 121>>,   \* "api_key"
    <<111, 97, 117, 116, 104, 50>>,   \* "oauth2"
    <<99, 117, 115, 116, 111, 109>>   \* "custom"
    }

S_GET == <<71, 69, 84>>
S_query == <<113, 117, 101, 114, 121>>
S_bearer == <<98, 101, 97, 114, 101, 114>>

\* An object-valued property of the input: missing, undefined, a falsy value
\* (null, 0, "", false), a truthy value that is no object ("other": a number,
\* a string, true), or an object with the given properties
ObjAbsent == [t |-> "absent"]
ObjUndefined == [t |-> "undefined"]
ObjFalsy == [t |-> "falsy"]
ObjOther == [t |-> "other"]

RawParameter(name, location, required, type, description) ==
    [name |-> name, location |-> location, required |-> required,
     type |-> type, description |-> description]
RawRequestBody(content_type, schema, example) ==
    [t |-> "object", content_type |-> content_type, schema |-> schema,
     example |-> example]
RawResponse(status_code, description, content_type, schema, example) ==
    [status_code |-> status_code, description |-> description,
     content_type |-> content_type, schema |-> schema, example |-> example]
RawEndpoint(path, method, description, parameters, request_body, responses) ==
    [path |-> path, method |-> method, description |-> description,
     parameters |-> parameters, request_body |-> request_body,
     responses |-> responses]
RawAuth(type, description) ==
    [t |-> "object", type |-> type, description |-> description]

\* the loop over ep.parameters
RECURSIVE ParameterChecks(_)
ParameterChecks(params) ==
    IF params = <<>> THEN <<>>
    ELSE LET param == Head(params)
         IN << <<\/ ~In(param.name) \/ ~In(param.location)
                 \/ ~In(param.required) \/ ~In(param.type)
                 \/ ~In(param.description),
                 "Each parameter must have name, location, required, type, and description",
                 <<>> >>,
               <<JsString(param.location) \notin validParamLocations,
                 "Invalid parameter location", <<>> >> >>
            \o ParameterChecks(Tail(params))

\* "request_body" in ep && ep.request_body: a request body that is missing
\* or falsy is not looked at; a truthy one has to be an object with the three
\* properties
RequestBodyChecks(rb) ==
    IF rb.t \in {"absent", "undefined", "falsy"} THEN <<>>
    ELSE << <<\/ rb.t # "object"
              \/ ~In(rb.content_type) \/ ~In(rb.schema) \/ ~In(rb.example),
              "Request body must have content_type, schema, and example",
              <<>> >> >>

\* the loop over ep.responses
RECURSIVE ResponseChecks(_)
ResponseChecks(resps) ==
    IF resps = <<>> THEN <<>>
    ELSE LET resp == Head(resps)
             statusCode == JsNumber(resp.status_code)
         IN << <<\/ ~In(resp.status_code) \/ ~In(resp.description)
                 \/ ~In(resp.content_type) \/ ~In(resp.schema)
                 \/ ~In(resp.example),
                 "Each response must have status_code, description, content_type, schema, and example",
                 <<>> >>,
               <<\/ statusCode.nan \/ NumLt(statusCode, Num(100))
                 \/ NumGt(statusCode, Num(599)),
                 "Status code must be between 100 and 599", <<>> >> >>
            \o ResponseChecks(Tail(resps))

\* the loop over data.endpoints
RECURSIVE EndpointChecks(_)
EndpointChecks(eps) ==
    IF eps = <<>> THEN <<>>
    ELSE LET ep == Head(eps)
         IN << <<\/ ~In(ep.path) \/ ~In(ep.method) \/ ~In(ep.description)
                 \/ ~In(ep.parameters) \/ ~In(ep.responses),
                 "Each endpoint must have path, method, description, parameters, and responses",
                 <<>> >>,
               <<JsString(ep.method) \notin validMethods, "Invalid method", <<>> >>,
               <<ep.parameters.t # "array", "Parameters must be an array", <<>> >> >>
            \o ParameterChecks(ArrayOrEmpty(ep.parameters))
            \o RequestBodyChecks(ep.request_body)
            \o << <<ep.responses.t # "array" \/ Len(ep.responses.items) = 0,
                    "Responses must be a non-empty array", <<>> >> >>
            \o ResponseChecks(ArrayOrEmpty(ep.responses))
            \o EndpointChecks(Tail(eps))

RECURSIVE TypedParameters(_)
TypedParameters(params) ==
    IF params = <<>> THEN <<>>
    ELSE << [name |-> JsString(Head(params).name),
             location |-> JsString(Head(params).location),
             required |-> JsBoolean(Head(params).required),
             type |-> JsString(Head(params).type),
             description |-> JsString(Head(params).description)] >>
         \o TypedParameters(Tail(params))

RECURSIVE TypedResponses(_)
TypedResponses(resps) ==
    IF resps = <<>> THEN <<>>
    ELSE << [status_code |-> JsNumber(Head(resps).status_code),
             description |-> JsString(Head(resps).description),
             content_type |-> JsString(Head(resps).content_type),
             schema |-> Head(resps).schema,
             example |-> JsString(Head(resps).example)] >>
         \o TypedResponses(Tail(resps))

TypedRequestBody(rb) ==
    IF rb.t = "object"
    THEN [has |-> TRUE, content_type |-> JsString(rb.content_type),
          schema |-> rb.schema, example |-> JsString(rb.example)]
    ELSE [has |-> FALSE, content_type |-> <<>>, schema |-> RawUndefined,
          example |-> <<>>]

RECURSIVE TypedEndpoints(_)
TypedEndpoints(eps) ==
    IF eps = <<>> THEN <<>>
    ELSE << [path |-> JsString(Head(eps).path),
             method |-> JsString(Head(eps).method),
             description |-> JsString(Head(eps).description),
             parameters |-> TypedParameters(ArrayOrEmpty(Head(eps).parameters)),
             request_body |-> TypedRequestBody(Head(eps).request_body),
             responses |-> TypedResponses(ArrayOrEmpty(Head(eps).responses))] >>
         \o TypedEndpoints(Tail(eps))

validateAPIBlueprintData(data) ==
    IF \/ ~data.obj
       \/ ~In(data.api_id)
       \/ ~In(data.api_name)
       \/ ~In(data.api_version)
       \/ ~In(data.description)
       \/ ~In(data.endpoints)
       \/ ~In(data.auth_requirements)
       \/ ~In(data.draft_number)
       \/ ~In(data.total_drafts)
       \/ ~In(data.next_step_needed)
    THEN Throw("Missing required fields")
    ELSE
    LET auth == data.auth_requirements
        authOk == auth.t = "object" /\ In(auth.type) /\ In(auth.description)
        apiBlueprintData ==
            [api_id |-> JsString(data.api_id),
             api_name |-> JsString(data.api_name),
             api_version |-> JsString(data.api_version),
             description |-> JsString(data.description),
             endpoints |-> TypedEndpoints(ArrayOrEmpty(data.endpoints)),
             auth_requirements |->
                 IF authOk THEN [type |-> JsString(auth.type),
                                 description |-> JsString(auth.description)]
                 ELSE [type |-> <<>>, description |-> <<>>],
             draft_number |-> JsNumber(data.draft_number),
             total_drafts |-> JsNumber(data.total_drafts),
             next_step_needed |-> JsBoolean(data.next_step_needed),
             is_critique |-> OptBoolean(data.is_critique),
             critique_focus |-> OptString(data.critique_focus),
             revision_instructions |-> OptString(data.revision_instructions),
             is_final_draft |-> OptBoolean(data.is_final_draft)]
        checks ==
            << <<data.endpoints.t # "array", "Endpoints must be an array", <<>> >> >>
            \o EndpointChecks(ArrayOrEmpty(data.endpoints))
            \o << <<~authOk, "Auth requirements must have type and description",
                    <<>> >>,
                  <<apiBlueprintData.auth_requirements.type \notin validAuthTypes,
                    "Invalid auth type", <<>> >>,
                  <<NumLe(apiBlueprintData.draft_number, Num(0)),
                    "Draft number must be positive", <<>> >>,
                  <<NumLe(apiBlueprintData.total_drafts, Num(0)),
                    "Total drafts must be positive", <<>> >>,
                  <<NumGt(apiBlueprintData.draft_number, apiBlueprintData.total_drafts),
                    "Draft number cannot exceed total drafts", <<>> >>,
                  <<apiBlueprintData.is_critique = "true"
                        /\ Falsy(apiBlueprintData.critique_focus),
                    "Critique focus required when is_critique is true", <<>> >>,
                  <<apiBlueprintData.is_critique = "false"
                        /\ Falsy(apiBlueprintData.revision_instructions),
                    "Revision instructions required when is_critique is false",
                    <<>> >> >>
    IN  IF Failing(checks) # {} THEN ThrowFirst(checks)
        ELSE Accept(apiBlueprintData)


-----------------------------------------------------------------------------
(* validateImplementationStrategyData (implementation strategy planner)     *)

validImpactLevels == {
    <<108, 111, 119>>,   \* "low"
    <<109, 101, 100, 105, 117, 109>>,   \* "medium"
    <<104, 105, 103, 104>>   \* "high"
    }

validDependencyTypes == {
    <<102, 101, 97, 116, 117, 114, 101>>,   \* "feature"
    <<99, 111, 109, 112, 111, 110, 101, 110, 116>>,   \* "component"
    <<115, 121, 115, 116, 101, 109>>,   \* "system"
    <<101, 120, 116, 101, 114, 110, 97, 108>>,   \* "external"
    <<111, 116, 104, 101, 114>>   \* "other"
    }

validDependencyStatuses == {
    <<110, 111, 116, 95, 115, 116, 97, 114, 116, 101, 100>>,   \* "not_started"
    <<105, 110, 95, 112, 114, 111, 103, 114, 101, 115, 115>>,   \* "in_progress"
    <<99, 111, 109, 112, 108, 101, 116, 101, 100>>,   \* "completed"
    <<98, 108, 111, 99, 107, 101, 100>>   \* "blocked"
    }

validConstraintCategories == {
    <<116, 105, 109, 101>>,   \* "time"
    <<114, 101, 115, 111, 117, 114, 99, 101>>,   \* "resource"
    <<116, 101, 99, 104, 110, 105, 99, 97, 108>>,   \* "technical"
    <<111, 114, 103, 97, 110, 105, 122, 97, 116, 105, 111, 110, 97, 108>>,   \* "organizational"
    <<111, 116, 104, 101, 114>>   \* "other"
    }

S_low == <<108, 111, 119>>
S_feature == <<102, 101, 97, 116, 117, 114, 101>>
S_blocked == <<98, 108, 111, 99, 107, 101, 100>>
S_time == <<116, 105, 109, 101>>

RawRisk(description, mitigation, impact) ==
    [description |-> description, mitigation |-> mitigation, impact |-> impact]
RawPhase(name, description, tasks, estimated_effort, risks, dependencies) ==
    [name |-> name, description |-> description, tasks |-> tasks,
     estimated_effort |-> estimated_effort, risks |-> risks,
     dependencies |-> dependencies]
RawApproach(name, description, phases, pros, cons) ==
    [name |-> name, description |-> description, phases |-> phases,
     pros |-> pros, cons |-> cons]
RawDependency(name, description, type, status) ==
    [name |-> name, description |-> description, type |-> type,
     status |-> status]
RawConstraint(category, description, impact) ==
    [category |-> category, description |-> description, impact |-> impact]

\* the loop over phase.risks
RECURSIVE RiskChecks(_)
RiskChecks(risks) ==
    IF risks = <<>> THEN <<>>
    ELSE LET risk == Head(risks)
         IN << <<~In(risk.description) \/ ~In(risk.mitigation) \/ ~In(risk.impact),
                 "Each risk must have description, mitigation, and impact", <<>> >>,
               <<JsString(risk.impact) \notin validImpactLevels,
                 "Invalid impact level", <<>> >> >>
            \o RiskChecks(Tail(risks))

\* the loop over approach.phases
RECURSIVE PhaseChecks(_)
PhaseChecks(phases) ==
    IF phases = <<>> THEN <<>>
    ELSE LET phase == Head(phases)
         IN << <<\/ ~In(phase.name) \/ ~In(phase.description)
                 \/ ~In(phase.tasks) \/ ~In(phase.estimated_effort)
                 \/ ~In(phase.risks) \/ ~In(phase.dependencies),
                 "Each phase must have name, description, tasks, estimated_effort, risks, and dependencies",
                 <<>> >>,
               <<phase.tasks.t # "array", "Tasks must be an array", <<>> >>,
               <<phase.risks.t # "array", "Risks must be an array", <<>> >> >>
            \o RiskChecks(ArrayOrEmpty(phase.risks))
            \o << <<phase.dependencies.t # "array",
                    "Dependencies must be an array", <<>> >> >>
            \o PhaseChecks(Tail(phases))

\* the loop over data.implementation_approaches
RECURSIVE ApproachChecks(_)
ApproachChecks(approaches) ==
    IF approaches = <<>> THEN <<>>
    ELSE LET approach == Head(approaches)
         IN << <<\/ ~In(approach.name) \/ ~In(approach.description)
                 \/ ~In(approach.phases) \/ ~In(approach.pros)
                 \/ ~In(approach.cons),
                 "Each approach must have name, description, phases, pros, and cons",
                 <<>> >>,
               <<approach.phases.t # "array", "Phases must be an array", <<>> >> >>
            \o PhaseChecks(ArrayOrEmpty(approach.phases))
            \o ApproachChecks(Tail(approaches))

\* the loop over data.dependencies
RECURSIVE DependencyChecks(_)
DependencyChecks(deps) ==
    IF deps = <<>> THEN <<>>
    ELSE LET dep == Head(deps)
         IN << <<\/ ~In(dep.name) \/ ~In(dep.description)
                 \/ ~In(dep.type) \/ ~In(dep.status),
                 "Each dependency must have name, description, type, and status",
                 <<>> >>,
               <<JsString(dep.type) \notin validDependencyTypes,
                 "Invalid dependency type", <<>> >>,
               <<JsString(dep.status) \notin validDependencyStatuses,
                 "Invalid dependency status", <<>> >> >>
            \o DependencyChecks(Tail(deps))

\* the loop over data.constraints
RECURSIVE ConstraintChecks(_)
ConstraintChecks(constraints) ==
    IF constraints = <<>> THEN <<>>
    ELSE LET constraint == Head(constraints)
         IN << <<\/ ~In(constraint.category) \/ ~In(constraint.description)
                 \/ ~In(constraint.impact),
                 "Each constraint must have category, description, and impact",
                 <<>> >>,
               <<JsString(constraint.category) \notin validConstraintCategories,
                 "Invalid constraint category", <<>> >>,
               <<JsString(constraint.impact) \notin validImpactLevels,
                 "Invalid impact level", <<>> >> >>
            \o ConstraintChecks(Tail(constraints))

RECURSIVE TypedRisks(_)
TypedRisks(risks) ==
    IF risks = <<>> THEN <<>>
    ELSE << [description |-> JsString(Head(risks).description),
             mitigation |-> JsString(Head(risks).mitigation),
             impact |-> JsString(Head(risks).impact)] >>
         \o TypedRisks(Tail(risks))

RECURSIVE TypedPhases(_)
TypedPhases(phases) ==
    IF phases = <<>> THEN <<>>
    ELSE << [name |-> JsString(Head(phases).name),
             description |-> JsString(Head(phases).description),
             tasks |-> MapJsString(ArrayOrEmpty(Head(phases).tasks)),
             estimated_effort |-> JsNumber(Head(phases).estimated_effort),
             risks |-> TypedRisks(ArrayOrEmpty(Head(phases).risks)),
             dependencies |-> MapJsString(ArrayOrEmpty(Head(phases).dependencies))] >>
         \o TypedPhases(Tail(phases))

RECURSIVE TypedApproaches(_)
TypedApproaches(approaches) ==
    IF approaches = <<>> THEN <<>>
    ELSE << [name |-> JsString(Head(approaches).name),
             description |-> JsString(Head(approaches).description),
             phases |-> TypedPhases(ArrayOrEmpty(Head(approaches).phases)),
             pros |-> MapJsString(ArrayOrEmpty(Head(approaches).pros)),
             cons |-> MapJsString(ArrayOrEmpty(Head(approaches).cons))] >>
         \o TypedApproaches(Tail(approaches))

RECURSIVE TypedDependencies(_)
TypedDependencies(deps) ==
    IF deps = <<>> THEN <<>>
    ELSE << [name |-> JsString(Head(deps).name),
             description |-> JsString(Head(deps).description),
             type |-> JsString(Head(deps).type),
             status |-> JsString(Head(deps).status)] >>
         \o TypedDependencies(Tail(deps))

RECURSIVE TypedConstraints(_)
TypedConstraints(constraints) ==
    IF constraints = <<>> THEN <<>>
    ELSE << [category |-> JsString(Head(constraints).category),
             description |-> JsString(Head(constraints).description),
             impact |-> JsString(Head(constraints).impact)] >>
         \o TypedConstraints(Tail(constraints))

\* implementation_approaches.map(a => a.name), as a set
ApproachNames(approaches) == {approaches[i].name : i \in 1..Len(approaches)}

validateImplementationStrategyData(data) ==
    IF \/ ~data.obj
       \/ ~In(data.strategy_id)
       \/ ~In(data.feature_name)
       \/ ~In(data.feature_description)
       \/ ~In(data.implementation_approaches)
       \/ ~In(data.dependencies)
       \/ ~In(data.constraints)
       \/ ~In(data.success_criteria)
       \/ ~In(data.draft_number)
       \/ ~In(data.total_drafts)
       \/ ~In(data.next_step_needed)
    THEN Throw("Missing required fields")
    ELSE
    LET strategyData ==
            [strategy_id |-> JsString(data.strategy_id),
             feature_name |-> JsString(data.feature_name),
             feature_description |-> JsString(data.feature_description),
             implementation_approaches |->
                 TypedApproaches(ArrayOrEmpty(data.implementation_approaches)),
             dependencies |-> TypedDependencies(ArrayOrEmpty(data.dependencies)),
             constraints |-> TypedConstraints(ArrayOrEmpty(data.constraints)),
             success_criteria |-> MapJsString(ArrayOrEmpty(data.success_criteria)),
             draft_number |-> JsNumber(data.draft_number),
             total_drafts |-> JsNumber(data.total_drafts),
             next_step_needed |-> JsBoolean(data.next_step_needed),
             selected_approach |-> OptString(data.selected_approach),
             is_critique |-> OptBoolean(data.is_critique),
             critique_focus |-> OptString(data.critique_focus),
             revision_instructions |-> OptString(data.revision_instructions),
             is_final_draft |-> OptBoolean(data.is_final_draft)]
        checks ==
            << <<data.implementation_approaches.t # "array",
                 "Implementation approaches must be an array", <<>> >> >>
            \o ApproachChecks(ArrayOrEmpty(data.implementation_approaches))
            \o << <<data.dependencies.t # "array",
                    "Dependencies must be an array", <<>> >> >>
            \o DependencyChecks(ArrayOrEmpty(data.dependencies))
            \o << <<data.constraints.t # "array",
                    "Constraints must be an array", <<>> >> >>
            \o ConstraintChecks(ArrayOrEmpty(data.constraints))
            \o << <<data.success_criteria.t # "array",
                    "Success criteria must be an array", <<>> >>,
                  <<NumLe(strategyData.draft_number, Num(0)),
                    "Draft number must be positive", <<>> >>,
                  <<NumLe(strategyData.total_drafts, Num(0)),
                    "Total drafts must be positive", <<>> >>,
                  <<NumGt(strategyData.draft_number, strategyData.total_drafts),
                    "Draft number cannot exceed total drafts", <<>> >>,
                  <<strategyData.is_critique = "true"
                        /\ Falsy(strategyData.critique_focus),
                    "Critique focus required when is_critique is true", <<>> >>,
                  <<strategyData.is_critique = "false"
                        /\ Falsy(strategyData.revision_instructions),
                    "Revision instructions required when is_critique is false",
                    <<>> >>,
                  <<~Falsy(strategyData.selected_approach)
                        /\ strategyData.selected_approach.s \notin
                               ApproachNames(strategyData.implementation_approaches),
                    "Selected approach not found in implementation approaches",
                    strategyData.selected_approach.s>> >>
    IN  IF Failing(checks) # {} THEN ThrowFirst(checks)
        ELSE Accept(strategyData)


-----------------------------------------------------------------------------
(* The validators on their own: each is applied once to an input drawn     *)
(* from a bounded set of untyped documents.                                *)

\* draft numbers of the inputs run from 0 to MaxDraft
MaxDraft == 5

\* " 1e0": a numeric string with white space and an exponent, which is 1
S_one_e0 == <<32, 49, 101, 48>>

\* values of draft_number and total_drafts: numbers, two numeric strings and
\* a string that is no number
DraftInputs ==
    {RawNum(n) : n \in 0..MaxDraft}
        \cup {RawStr(S_five), RawStr(S_one_e0), RawStr(S_a)}

\* values of is_critique: the key missing, or there with undefined, null,
\* true or false
CritiqueInputs == {RawAbsent, RawUndefined, RawNull, RawBool(TRUE), RawBool(FALSE)}

\* values of critique_focus and revision_instructions
TextInputs == {RawAbsent, RawUndefined, RawStr(S_empty), RawStr(S_a)}

\* the fields every kind of document carries
CommonInputs ==
    [dn : DraftInputs, td : DraftInputs, crit : CritiqueInputs,
     focus : TextInputs, instr : TextInputs]

\* the same with draft 1 of 3, for the inputs whose domain content varies
PlainCommonInputs ==
    [dn : {RawNum(1)}, td : {RawNum(3)},
     crit : {RawAbsent, RawBool(TRUE), RawBool(FALSE)},
     focus : {RawAbsent, RawStr(S_a)}, instr : {RawAbsent, RawStr(S_a)}]

ThoughtInput(c, step) ==
    [obj |-> TRUE,
     reasoning_chain |-> Arr(<<RawStr(S_a)>>),
     next_step_needed |-> RawBool(TRUE),
     draft_number |-> c.dn, total_drafts |-> c.td,
     is_final_draft |-> RawAbsent,
     is_critique |-> c.crit, critique_focus |-> c.focus,
     revision_instructions |-> c.instr,
     step_to_review |-> step]

ADRInput(c, id) ==
    [obj |-> TRUE,
     id |-> id, title |-> RawStr(S_t), status |-> RawStr(S_proposed),
     context |-> RawStr(S_c), decision |-> RawStr(S_d),
     consequences |-> Arr(<<>>),
     alternatives |-> Arr(<<Alternative(S_a, <<S_t>>, <<>>)>>),
     related_decisions |-> Arr(<<>>),
     draft_number |-> c.dn, total_drafts |-> c.td,
     is_final_draft |-> RawAbsent,
     is_critique |-> c.crit, critique_focus |-> c.focus,
     revision_instructions |-> c.instr]

FileAt(path) == RawFile(RawStr(path), RawStr(S_a), RawStr(S_a), RawNum(1))
FindingOn(path) ==
    RawFinding(RawStr(path), Arr(<<RawNum(1), RawNum(2)>>),
               RawStr(S_security), RawStr(S_warning), RawStr(S_a))

ReviewInput(c, id, files, findings) ==
    [obj |-> TRUE,
     review_id |-> id, pull_request_id |-> RawStr(S_a),
     repository |-> RawStr(S_a),
     review_dimensions |-> Arr(<<RawStr(S_security)>>),
     files |-> Arr(files), findings |-> Arr(findings),
     draft_number |-> c.dn, total_drafts |-> c.td,
     next_step_needed |-> RawBool(TRUE),
     is_critique |-> c.crit, critique_focus |-> c.focus,
     revision_instructions |-> c.instr,
     is_final_draft |-> RawAbsent]

APIInputWith(c, id, request_body) ==
    [obj |-> TRUE,
     api_id |-> id, api_name |-> RawStr(S_a), api_version |-> RawStr(S_a),
     description |-> RawStr(S_a),
     endpoints |->
         Arr(<<RawEndpoint(RawStr(S_a), RawStr(S_GET), RawStr(S_a),
                           Arr(<<RawParameter(RawStr(S_a), RawStr(S_query),
                                              RawBool(TRUE), RawStr(S_a),
                                              RawStr(S_a))>>),
                           request_body,
                           Arr(<<RawResponse(RawNum(200), RawStr(S_a),
                                             RawStr(S_a), RawObject,
                                             RawStr(S_a))>>))>>),
     auth_requirements |-> RawAuth(RawStr(S_bearer), RawStr(S_a)),
     draft_number |-> c.dn, total_drafts |-> c.td,
     next_step_needed |-> RawBool(TRUE),
     is_critique |-> c.crit, critique_focus |-> c.focus,
     revision_instructions |-> c.instr,
     is_final_draft |-> RawAbsent]

APIInput(c, id) == APIInputWith(c, id, ObjAbsent)

StrategyInput(c, id, selected) ==
    [obj |-> TRUE,
     strategy_id |-> id, feature_name |-> RawStr(S_a),
     feature_description |-> RawStr(S_a),
     implementation_approaches |->
         Arr(<<RawApproach(RawStr(S_a), RawStr(S_a),
                           Arr(<<RawPhase(RawStr(S_a), RawStr(S_a),
                                          Arr(<<RawStr(S_a)>>), RawNum(1),
                                          Arr(<<RawRisk(RawStr(S_a), RawStr(S_a),
                                                        RawStr(S_low))>>),
                                          Arr(<<>>))>>),
                           Arr(<<RawStr(S_a)>>), Arr(<<>>))>>),
     dependencies |->
         Arr(<<RawDependency(RawStr(S_a), RawStr(S_a), RawStr(S_feature),
                             RawStr(S_blocked))>>),
     constraints |->
         Arr(<<RawConstraint(RawStr(S_time), RawStr(S_a), RawStr(S_low))>>),
     success_criteria |-> Arr(<<RawStr(S_a)>>),
     draft_number |-> c.dn, total_drafts |-> c.td,
     next_step_needed |-> RawBool(TRUE),
     selected_approach |-> selected,
     is_critique |-> c.crit, critique_focus |-> c.focus,
     revision_instructions |-> c.instr,
     is_final_draft |-> RawAbsent]

\* the files and findings lists of the code-review inputs
FilesInputs == {<<>>, <<FileAt(S_x_py)>>, <<FileAt(S_x_py), FileAt(S_y_py)>>}
\* a finding on x.py with the given line range [start, end] and severity
FindingWith(startLine, endLine, severity) ==
    RawFinding(RawStr(S_x_py), Arr(<<RawNum(startLine), RawNum(endLine)>>),
               RawStr(S_security), RawStr(severity), RawStr(S_a))
FindingsInputs ==
    {<<>>, <<FindingOn(S_x_py)>>, <<FindingOn(S_y_py)>>,
     <<FindingOn(S_x_py), FindingOn(S_y_py)>>,
     <<FindingOn(S_y_py), FindingOn(S_x_py)>>,
     <<FindingWith(1, 2, S_bogus)>>,
     <<FindingWith(2, 1, S_warning)>>,
     <<FindingWith(2, 1, S_bogus)>>,
     <<FindingWith(1, 2, S_bogus), FindingWith(2, 1, S_warning)>>}

\* values of request_body of the one endpoint of the API inputs: missing,
\* falsy, a truthy value that is no object, an object
RequestBodyInputs ==
    {ObjAbsent, ObjUndefined, ObjFalsy, ObjOther,
     RawRequestBody(RawStr(S_a), RawObject, RawStr(S_a))}

\* values of selected_approach; the one approach of the inputs is named "a"
SelectedInputs == {RawAbsent, RawStr(S_empty), RawStr(S_a), RawStr(S_t)}

Request(kind, data) == [kind |-> kind, data |-> data]

\* the inputs of the validators: for each kind the documents whose common
\* fields vary, and for code reviews, strategies and API blueprints also
\* those whose files, findings, selected approach and request body vary
IsValidatorInput(r) ==
    \/ \E c \in CommonInputs :
         \/ r = Request("thought", ThoughtInput(c, RawAbsent))
         \/ r = Request("adr", ADRInput(c, RawStr(KeyText("k1"))))
         \/ r = Request("review",
                        ReviewInput(c, RawStr(KeyText("k1")), <<FileAt(S_x_py)>>,
                                    <<FindingOn(S_x_py)>>))
         \/ r = Request("api", APIInput(c, RawStr(KeyText("k1"))))
         \/ r = Request("strategy",
                        StrategyInput(c, RawStr(KeyText("k1")), RawAbsent))
    \/ \E c \in PlainCommonInputs :
         \/ \E files \in FilesInputs, findings \in FindingsInputs :
              r = Request("review",
                          ReviewInput(c, RawStr(KeyText("k1")), files, findings))
         \/ \E selected \in SelectedInputs :
              r = Request("strategy",
                          StrategyInput(c, RawStr(KeyText("k1")), selected))
         \/ \E request_body \in RequestBodyInputs :
              r = Request("api",
                          APIInputWith(c, RawStr(KeyText("k1")), request_body))

Outcome(kind, res) == [kind |-> kind, res |-> res]

ValidateThought ==
    /\ vin.kind = "thought" /\ vout = NoInput
    /\ vout' = Outcome("thought", validateThoughtData(vin.data))
    /\ UNCHANGED <<now, sessions, cell, call, lastWrite, calls, vin,
                 maxSessionSize, hist, req, timers>>

ValidateADR ==
    /\ vin.kind = "adr" /\ vout = NoInput
    /\ vout' = Outcome("adr", validateADRData(vin.data))
    /\ UNCHANGED <<now, sessions, cell, call, lastWrite, calls, vin,
                 maxSessionSize, hist, req, timers>>

ValidateCodeReview ==
    /\ vin.kind = "review" /\ vout = NoInput
    /\ vout' = Outcome("review", validateCodeReviewData(vin.data))
    /\ UNCHANGED <<now, sessions, cell, call, lastWrite, calls, vin,
                 maxSessionSize, hist, req, timers>>

ValidateAPIBlueprint ==
    /\ vin.kind = "api" /\ vout = NoInput
    /\ vout' = Outcome("api", validateAPIBlueprintData(vin.data))
    /\ UNCHANGED <<now, sessions, cell, call, lastWrite, calls, vin,
                 maxSessionSize, hist, req, timers>>

ValidateImplementationStrategy ==
    /\ vin.kind = "strategy" /\ vout = NoInput
    /\ vout' = Outcome("strategy", validateImplementationStrategyData(vin.data))
    /\ UNCHANGED <<now, sessions, cell, call, lastWrite, calls, vin,
                 maxSessionSize, hist, req, timers>>

InitV ==
    /\ now = 0
    /\ sessions = [k \in Entries |-> NoRef]
    /\ cell = [c \in Cells |-> Blank]
    /\ call = [p \in Procs |-> IdleCall]
    /\ lastWrite = [k \in Entries |-> NoWrite]
    /\ calls = 0
    /\ IsValidatorInput(vin)
    /\ vout = NoInput
    /\ maxSessionSize = MaxSessionSize
    /\ hist = NoHistory
    /\ req = [p \in Procs |-> IdleRequest]
    /\ timers = Started

NextV ==
    \/ ValidateThought
    \/ ValidateADR
    \/ ValidateCodeReview
    \/ ValidateAPIBlueprint
    \/ ValidateImplementationStrategy

SpecV == InitV /\ [][NextV]_vars


-----------------------------------------------------------------------------
(* Properties of the validators                                            *)

\* a validator has been applied to the input
Validated == vout # NoInput

\* the input's draft numbers are numbers with 1 <= draft_number <= total_drafts
ValidDrafts(data) ==
    /\ data.draft_number.t = "num" /\ data.total_drafts.t = "num"
    /\ 1 <= data.draft_number.n
    /\ data.draft_number.n <= data.total_drafts.n

\* a finding whose severity is none of the valid severities
BadSeverity(f) == JsString(f.severity) \notin validSeverities
\* a finding whose line range is out of order or starts before line 1
BadLineRange(f) ==
    \/ RangeStart(f).nan \/ RangeEnd(f).nan
    \/ NumLt(RangeStart(f), Num(1)) \/ NumLt(RangeEnd(f), RangeStart(f))

\* the findings of a code review input have line ranges and severities that
\* are valid; inputs of the other kinds have no findings
FindingsWellFormed(r) ==
    r.kind = "review" =>
        \A i \in 1..Len(r.data.findings.items) :
            /\ ~BadSeverity(r.data.findings.items[i])
            /\ ~BadLineRange(r.data.findings.items[i])

\* the request body of every endpoint of an API blueprint is missing, falsy
\* or an object with its three properties; inputs of the other kinds have no
\* endpoints
RequestBodiesWellFormed(r) ==
    r.kind = "api" =>
        \A i \in 1..Len(r.data.endpoints.items) :
            r.data.endpoints.items[i].request_body.t # "other"

\* the input's cross references resolve: each finding's file is the path of
\* one of the files, a selected approach is the name of one of the approaches
ReferencesResolve(r) ==
    CASE r.kind = "review" ->
            \A i \in 1..Len(r.data.findings.items) :
                \E j \in 1..Len(r.data.files.items) :
                    r.data.findings.items[i].file = r.data.files.items[j].path
      [] r.kind = "strategy" ->
            \/ r.data.selected_approach \in {RawAbsent, RawStr(S_empty)}
            \/ \E j \in 1..Len(r.data.implementation_approaches.items) :
                   r.data.selected_approach =
                       r.data.implementation_approaches.items[j].name
      [] OTHER -> TRUE

\* C7: for each of the five kinds, the validator throws on a document whose
\* is_critique is true and whose critique_focus is missing or the empty
\* string; when nothing else is wrong with the document, the Error is
\* "Critique focus required when is_critique is true".
C7_CritiqueFocusRequired ==
    (/\ Validated
     /\ vin.data.is_critique = RawBool(TRUE)
     /\ vin.data.critique_focus \in {RawAbsent, RawStr(S_empty)}) =>
        /\ ~vout.res.ok
        /\ (/\ ValidDrafts(vin.data)
            /\ FindingsWellFormed(vin) /\ RequestBodiesWellFormed(vin)
            /\ ReferencesResolve(vin)) =>
               vout.res.error = "Critique focus required when is_critique is true"

C7_Witness ==
    /\ Validated
    /\ vin.kind = "thought"
    /\ vin.data.is_critique = RawBool(TRUE)
    /\ vin.data.critique_focus = RawStr(S_empty)
    /\ ValidDrafts(vin.data)
    /\ ~vout.res.ok
    /\ vout.res.error = "Critique focus required when is_critique is true"

\* C8: for each of the five kinds, the reasoning chain included, the
\* validator throws on a document whose is_critique is false and whose
\* revision_instructions is missing.
C8_RevisionInstructionsRequired ==
    (/\ Validated
     /\ vin.data.is_critique = RawBool(FALSE)
     /\ vin.data.revision_instructions = RawAbsent) =>
        ~vout.res.ok

\* a reasoning-chain document that revises without revision_instructions is
\* accepted
C8_Witness ==
    /\ Validated
    /\ vin.kind = "thought"
    /\ vin.data.is_critique = RawBool(FALSE)
    /\ vin.data.revision_instructions = RawAbsent
    /\ vout.res.ok
    /\ vout.res.doc.is_critique = "false"
    /\ ~vout.res.doc.revision_instructions.has

\* C9: for each of the five kinds, a document that is valid otherwise, has
\* neither critique_focus nor revision_instructions, and whose is_critique is
\* missing in any form (no such key, or the key with undefined or null) is
\* accepted.
C9_NeitherRuleWithoutIsCritique ==
    (/\ Validated
     /\ vin.data.is_critique \in {RawAbsent, RawUndefined, RawNull}
     /\ vin.data.critique_focus = RawAbsent
     /\ vin.data.revision_instructions = RawAbsent
     /\ ValidDrafts(vin.data)
     /\ FindingsWellFormed(vin) /\ RequestBodiesWellFormed(vin)
     /\ ReferencesResolve(vin)) =>
        vout.res.ok

\* an architecture decision whose is_critique key is there with the value
\* undefined is rejected for its missing revision_instructions
C9_Witness ==
    /\ Validated
    /\ vin.kind = "adr"
    /\ vin.data.is_critique = RawUndefined
    /\ vin.data.critique_focus = RawAbsent
    /\ vin.data.revision_instructions = RawAbsent
    /\ ValidDrafts(vin.data)
    /\ ~vout.res.ok
    /\ vout.res.error = "Revision instructions required when is_critique is false"

\* the input states its critique or revision as the conditional rules ask
CritiquePairingMet(data) ==
    \/ data.is_critique = RawAbsent
    \/ data.is_critique = RawBool(TRUE) /\ data.critique_focus = RawStr(S_a)
    \/ data.is_critique = RawBool(FALSE) /\ data.revision_instructions = RawStr(S_a)

\* the findings of the input whose file is the path of none of its files
Unresolved(data) ==
    {i \in 1..Len(data.findings.items) :
        \A j \in 1..Len(data.files.items) :
            data.findings.items[i].file # data.files.items[j].path}

\* C10: a code-review document that is valid otherwise and has a finding
\* whose file is the path of none of its files is rejected, and the Error
\* names the file of the first such finding; a code-review document in which
\* every finding's file is the path of one of the files is never rejected for
\* its references, and is accepted when it is valid otherwise.
C10_ReferentialIntegrity ==
    (Validated /\ vin.kind = "review" /\ FindingsWellFormed(vin)) =>
        LET bad == Unresolved(vin.data)
            first == CHOOSE i \in bad : \A j \in bad : i <= j
        IN  /\ (bad # {} /\ ValidDrafts(vin.data) /\ CritiquePairingMet(vin.data)) =>
                   /\ ~vout.res.ok
                   /\ vout.res.error =
                          "Finding references file which is not in the files array"
                   /\ vout.res.arg = vin.data.findings.items[first].file.s
            /\ bad = {} =>
                   /\ vout.res.error #
                          "Finding references file which is not in the files array"
                   /\ (ValidDrafts(vin.data) /\ CritiquePairingMet(vin.data)) =>
                          vout.res.ok

C10_Witness ==
    /\ Validated /\ vin.kind = "review"
    /\ vin.data.files.items = <<FileAt(S_x_py)>>
    /\ vin.data.findings.items = <<FindingOn(S_x_py), FindingOn(S_y_py)>>
    /\ CritiquePairingMet(vin.data)
    /\ ~vout.res.ok
    /\ vout.res.error = "Finding references file which is not in the files array"
    /\ vout.res.arg = S_y_py


-----------------------------------------------------------------------------
(* The tool handlers                                                       *)

\* the number of tool requests a run makes
MaxRequests == 2

\* maxSessionSize of the managers the factory builds: 5MB
FactoryMaxSessionSize == 5 * 1024 * 1024

\* the key whose text is the given id
KeyOf(text) == CHOOSE k \in Keys : KeyText(k) = text

\* new McpError(code, message)
McpError(code, message, arg) == [code |-> code, message |-> message, arg |-> arg]

\* the catch clause of a handler on the Error a validator throws: it is no
\* McpError, so it is wrapped as InternalError with its message
Rethrown(res) == McpError("InternalError", res.error, res.arg)

\* the catch clause of a handler on the Error updateSession throws, whose
\* message is `Session size limit exceeded. Max: ${this.maxSessionSize},
\* Attempted: ${newSize}`: the text up to the first full stop, and the two
\* numbers it goes on with
RethrownCapacity(newSize) ==
    McpError("InternalError", "Session size limit exceeded",
             <<maxSessionSize, newSize>>)

\* "Validate draft progression": total_drafts raised to draft_number
DraftProgression(doc) ==
    IF NumGt(doc.draft_number, doc.total_drafts)
    THEN [doc EXCEPT !.total_drafts = doc.draft_number]
    ELSE doc

\* validatedInput.is_critique && validatedInput.critique_focus
TracksCritique(doc) == doc.is_critique = "true" /\ ~Falsy(doc.critique_focus)

\* the request of caller p has failed with the given McpError
Failed(kind, input, error) ==
    [IdleRequest EXCEPT !.pc = "done", !.kind = kind, !.input = input,
                        !.error = error]

\* the request of caller p has returned the given response
\* The response of a handler is the text JSON.stringify writes; the model
\* keeps what that text holds, member by member.  JSON has no NaN and no
\* infinity: JSON.stringify writes null for them.
JsonNull == [null |-> TRUE]
JsonNumber(a) == IF a.nan \/ a.inf # 0 THEN JsonNull ELSE a

\* an optional number of a response: left out when absent
JsonOptNumber(o) == [has |-> o.has, num |-> JsonNumber(o.num)]

Responded(kind, input, doc, session, response) ==
    [IdleRequest EXCEPT !.pc = "done", !.kind = kind, !.input = input,
                        !.doc = doc, !.session = session,
                        !.response = response]

S_NaN == <<78, 97, 78>>              \* "NaN"
S_branch == <<98, 114, 97, 110, 99, 104>>   \* "branch"

\* `branch_${draft_number}_${step_to_review}`
BranchId(doc) ==
    S_branch \o <<95>> \o NumText(doc.draft_number)
             \o <<95>> \o NumText(doc.step_to_review.num)

\* mutant: an existing branch is started afresh
AddToBranchReplacing(bs, id, doc) ==
    IF \E i \in 1..Len(bs) : bs[i].id = id
    THEN [i \in 1..Len(bs) |->
             IF bs[i].id = id THEN [bs[i] EXCEPT !.docs = <<doc>>]
             ELSE bs[i]]
    ELSE Append(bs, [id |-> id, docs |-> <<doc>>])

\* if (!branches[branchId]) branches[branchId] = []; branches[branchId].push(doc)
AddToBranch(bs, id, doc) ==
    IF \E i \in 1..Len(bs) : bs[i].id = id
    THEN [i \in 1..Len(bs) |->
             IF bs[i].id = id THEN [bs[i] EXCEPT !.docs = Append(@, doc)]
             ELSE bs[i]]
    ELSE Append(bs, [id |-> id, docs |-> <<doc>>])

\* Object.keys(branches)
BranchKeys(bs) == [i \in 1..Len(bs) |-> bs[i].id]

\* mutant: the input is pushed onto the history before it is validated
ProcessThoughtRequestStoringFirst(p, input) ==
    /\ req[p].pc = "idle" /\ call[p].pc = "idle"
    /\ calls < MaxRequests
    /\ calls' = calls + 1
    /\ \E res \in {validateThoughtData(input)} :
        IF ~res.ok
        THEN /\ req' = [req EXCEPT ![p] = Failed("thought", input, Rethrown(res))]
             /\ hist' = [hist EXCEPT !.thoughtHistory = Append(@, input)]
        ELSE \E doc \in {DraftProgression(res.doc)} :
             LET history == Append(hist.thoughtHistory, doc)
                 bs == IF doc.step_to_review.has
                       THEN AddToBranch(hist.branches, BranchId(doc), doc)
                       ELSE hist.branches
             IN  /\ hist' = [hist EXCEPT !.thoughtHistory = history,
                                         !.branches = bs]
                 /\ req' = [req EXCEPT ![p] =
                        Responded("thought", input, doc, Blank,
                            [draftNumber |-> JsonNumber(doc.draft_number),
                             totalDrafts |-> JsonNumber(doc.total_drafts),
                             nextStepNeeded |-> doc.next_step_needed,
                             isCritique |-> doc.is_critique,
                             critiqueFocus |-> doc.critique_focus,
                             revisionInstructions |-> doc.revision_instructions,
                             stepToReview |-> JsonOptNumber(doc.step_to_review),
                             isFinalDraft |-> doc.is_final_draft,
                             branches |-> BranchKeys(bs),
                             thoughtHistoryLength |-> Len(history)])]
    /\ UNCHANGED <<now, sessions, cell, call, lastWrite, vin, vout, maxSessionSize,
                   timers>>

\* processThoughtRequest: no await, one synchronous stretch
ProcessThoughtRequest(p, input) ==
    /\ req[p].pc = "idle" /\ call[p].pc = "idle"
    /\ calls < MaxRequests
    /\ calls' = calls + 1
    /\ \E res \in {validateThoughtData(input)} :
        IF ~res.ok
        THEN /\ req' = [req EXCEPT ![p] = Failed("thought", input, Rethrown(res))]
             /\ UNCHANGED hist
        ELSE \E doc \in {DraftProgression(res.doc)} :
             LET history == Append(hist.thoughtHistory, doc)
                 bs == IF doc.step_to_review.has
                       THEN AddToBranch(hist.branches, BranchId(doc), doc)
                       ELSE hist.branches
             IN  /\ hist' = [hist EXCEPT !.thoughtHistory = history,
                                         !.branches = bs]
                 /\ req' = [req EXCEPT ![p] =
                        Responded("thought", input, doc, Blank,
                            [draftNumber |-> JsonNumber(doc.draft_number),
                             totalDrafts |-> JsonNumber(doc.total_drafts),
                             nextStepNeeded |-> doc.next_step_needed,
                             isCritique |-> doc.is_critique,
                             critiqueFocus |-> doc.critique_focus,
                             revisionInstructions |-> doc.revision_instructions,
                             stepToReview |-> JsonOptNumber(doc.step_to_review),
                             isFinalDraft |-> doc.is_final_draft,
                             branches |-> BranchKeys(bs),
                             thoughtHistoryLength |-> Len(history)])]
    /\ UNCHANGED <<now, sessions, cell, call, lastWrite, vin, vout, maxSessionSize,
                   timers>>

\* processReviewRequest: no await, one synchronous stretch
ProcessReviewRequest(p, input) ==
    /\ req[p].pc = "idle" /\ call[p].pc = "idle"
    /\ calls < MaxRequests
    /\ calls' = calls + 1
    /\ \E res \in {validateCodeReviewData(input)} :
        IF ~res.ok
        THEN /\ req' = [req EXCEPT ![p] = Failed("review", input, Rethrown(res))]
             /\ UNCHANGED hist
        ELSE \E doc \in {DraftProgression(res.doc)} :
             LET reviewId == KeyOf(doc.review_id)
                 history == Append(hist.reviewHistory[reviewId], doc)
                 critiques == IF TracksCritique(doc)
                              THEN Append(hist.reviewCritiques[reviewId],
                                          doc.critique_focus.s)
                              ELSE hist.reviewCritiques[reviewId]
             IN  /\ hist' = [hist EXCEPT !.reviewHistory[reviewId] = history,
                                         !.reviewCritiques[reviewId] = critiques]
                 /\ req' = [req EXCEPT ![p] =
                        Responded("review", input, doc, Blank,
                            [reviewId |-> doc.review_id,
                             pullRequestId |-> doc.pull_request_id,
                             repository |-> doc.repository,
                             draftNumber |-> JsonNumber(doc.draft_number),
                             totalDrafts |-> JsonNumber(doc.total_drafts),
                             dimensions |-> doc.review_dimensions,
                             fileCount |-> Len(doc.files),
                             findingCount |-> Len(doc.findings),
                             nextStepNeeded |-> doc.next_step_needed,
                             isCritique |-> doc.is_critique,
                             critiqueFocus |-> doc.critique_focus,
                             revisionInstructions |-> doc.revision_instructions,
                             activeCritiques |-> critiques,
                             reviewHistoryLength |-> Len(history),
                             isFinalDraft |-> doc.is_final_draft])]
    /\ UNCHANGED <<now, sessions, cell, call, lastWrite, vin, vout, maxSessionSize,
                   timers>>

\* mutant: the list of the key is begun anew by every call
ProcessStrategyRequestAnew(p, input) ==
    /\ req[p].pc = "idle" /\ call[p].pc = "idle"
    /\ calls < MaxRequests
    /\ calls' = calls + 1
    /\ \E res \in {validateImplementationStrategyData(input)} :
        IF ~res.ok
        THEN /\ req' = [req EXCEPT ![p] = Failed("strategy", input, Rethrown(res))]
             /\ UNCHANGED hist
        ELSE \E doc \in {DraftProgression(res.doc)} :
             LET strategyId == KeyOf(doc.strategy_id)
                 history == <<doc>>
                 critiques == IF TracksCritique(doc)
                              THEN Append(hist.strategyCritiques[strategyId],
                                          doc.critique_focus.s)
                              ELSE hist.strategyCritiques[strategyId]
             IN  /\ hist' = [hist EXCEPT !.strategyHistory[strategyId] = history,
                                         !.strategyCritiques[strategyId] = critiques]
                 /\ req' = [req EXCEPT ![p] =
                        Responded("strategy", input, doc, Blank,
                            [strategyId |-> doc.strategy_id,
                             featureName |-> doc.feature_name,
                             draftNumber |-> JsonNumber(doc.draft_number),
                             totalDrafts |-> JsonNumber(doc.total_drafts),
                             approachCount |-> Len(doc.implementation_approaches),
                             selectedApproach |-> doc.selected_approach,
                             nextStepNeeded |-> doc.next_step_needed,
                             isCritique |-> doc.is_critique,
                             critiqueFocus |-> doc.critique_focus,
                             revisionInstructions |-> doc.revision_instructions,
                             activeCritiques |-> critiques,
                             strategyHistoryLength |-> Len(history),
                             isFinalDraft |-> doc.is_final_draft])]
    /\ UNCHANGED <<now, sessions, cell, call, lastWrite, vin, vout, maxSessionSize,
                   timers>>

\* processStrategyRequest: no await, one synchronous stretch
ProcessStrategyRequest(p, input) ==
    /\ req[p].pc = "idle" /\ call[p].pc = "idle"
    /\ calls < MaxRequests
    /\ calls' = calls + 1
    /\ \E res \in {validateImplementationStrategyData(input)} :
        IF ~res.ok
        THEN /\ req' = [req EXCEPT ![p] = Failed("strategy", input, Rethrown(res))]
             /\ UNCHANGED hist
        ELSE \E doc \in {DraftProgression(res.doc)} :
             LET strategyId == KeyOf(doc.strategy_id)
                 history == Append(hist.strategyHistory[strategyId], doc)
                 critiques == IF TracksCritique(doc)
                              THEN Append(hist.strategyCritiques[strategyId],
                                          doc.critique_focus.s)
                              ELSE hist.strategyCritiques[strategyId]
             IN  /\ hist' = [hist EXCEPT !.strategyHistory[strategyId] = history,
                                         !.strategyCritiques[strategyId] = critiques]
                 /\ req' = [req EXCEPT ![p] =
                        Responded("strategy", input, doc, Blank,
                            [strategyId |-> doc.strategy_id,
                             featureName |-> doc.feature_name,
                             draftNumber |-> JsonNumber(doc.draft_number),
                             totalDrafts |-> JsonNumber(doc.total_drafts),
                             approachCount |-> Len(doc.implementation_approaches),
                             selectedApproach |-> doc.selected_approach,
                             nextStepNeeded |-> doc.next_step_needed,
                             isCritique |-> doc.is_critique,
                             critiqueFocus |-> doc.critique_focus,
                             revisionInstructions |-> doc.revision_instructions,
                             activeCritiques |-> critiques,
                             strategyHistoryLength |-> Len(history),
                             isFinalDraft |-> doc.is_final_draft])]
    /\ UNCHANGED <<now, sessions, cell, call, lastWrite, vin, vout, maxSessionSize,
                   timers>>

\* processADRRequest, up to the await inside sessionManager.getSession
ProcessADRRequest(p, input) ==
    /\ req[p].pc = "idle" /\ call[p].pc = "idle"
    /\ calls < MaxRequests
    /\ calls' = calls + 1
    /\ \E res \in {validateADRData(input)} :
        IF ~res.ok
        THEN /\ req' = [req EXCEPT ![p] = Failed("adr", input, Rethrown(res))]
             /\ UNCHANGED <<cell, call>>
        ELSE \E doc \in {DraftProgression(res.doc)} :
             /\ BeginCall(p, KeyOf(doc.id), "getSession", EmptyData)
             /\ req' = [req EXCEPT ![p] =
                    [IdleRequest EXCEPT !.pc = "getSession", !.kind = "adr",
                                        !.input = input, !.doc = doc]]
    /\ UNCHANGED <<now, sessions, lastWrite, vin, vout, maxSessionSize, hist, timers>>

\* mutant: the history is started afresh with the new document
StoreInHistoryAfresh(data, doc) ==
    [data EXCEPT !.hasHistory = TRUE, !.history = <<doc>>]

\* if (!session.data.adrHistory) session.data.adrHistory = [];
\* session.data.adrHistory.push(validatedInput)
StoreInHistory(data, doc) ==
    [data EXCEPT !.hasHistory = TRUE, !.history = Append(@, doc)]

\* processADRRequest once getSession has returned: the push onto
\* session.data.adrHistory, then updateSession up to its first await
ADRStoreInHistory(p) ==
    /\ req[p].pc = "getSession" /\ req[p].kind = "adr"
    /\ call[p].pc = "done"
    /\ LET session == cell[call[p].session]
           data == StoreInHistory(session.data, req[p].doc)
           pushed == [session EXCEPT !.data = data]
       IN  /\ BeginCallOn([cell EXCEPT ![call[p].session] = pushed], p,
                          StoreManager, call[p].key, "updateSession", data)
           /\ req' = [req EXCEPT ![p].pc = "updateSession",
                                 ![p].read = session,
                                 ![p].session = pushed]
    /\ UNCHANGED <<now, sessions, lastWrite, calls, vin, vout, maxSessionSize,
                   hist, timers>>

\* processADRRequest once updateSession has returned or thrown
ADRRespond(p) ==
    /\ req[p].pc = "updateSession" /\ req[p].kind = "adr"
    /\ call[p].pc = "done"
    /\ LET doc == req[p].doc
           session == req[p].session
       IN  req' = [req EXCEPT ![p] =
               IF call[p].fault = "capacity"
               THEN Failed("adr", req[p].input,
                           RethrownCapacity(calculateSize(call[p].arg)))
               ELSE [Responded("adr", req[p].input, doc, session,
                        [id |-> doc.id, title |-> doc.title,
                         status |-> doc.status,
                         draftNumber |-> JsonNumber(doc.draft_number),
                         totalDrafts |-> JsonNumber(doc.total_drafts),
                         isCritique |-> doc.is_critique,
                         critiqueFocus |-> doc.critique_focus,
                         revisionInstructions |-> doc.revision_instructions,
                         isFinalDraft |-> doc.is_final_draft,
                         historyLength |-> Len(session.data.history),
                         sessionMetadata |-> session.metadata])
                        EXCEPT !.read = req[p].read]]
    /\ call' = [call EXCEPT ![p] = IdleCall]
    /\ cell' = [cell EXCEPT ![p] = Blank]
    /\ UNCHANGED <<now, sessions, lastWrite, calls, vin, vout, maxSessionSize,
                   hist, timers>>

\* processAPIRequest, up to the await inside sessionManager.getSession, as
\* one of the at most n requests of a run
APIRequestAmong(n, p, input) ==
    /\ req[p].pc = "idle" /\ call[p].pc = "idle"
    /\ calls < n
    /\ calls' = calls + 1
    /\ \E res \in {validateAPIBlueprintData(input)} :
        IF ~res.ok
        THEN /\ req' = [req EXCEPT ![p] = Failed("api", input, Rethrown(res))]
             /\ UNCHANGED <<cell, call>>
        ELSE \E doc \in {DraftProgression(res.doc)} :
             /\ BeginCallOn(cell, p, "apiBlueprint",
                            Entry("apiBlueprint", KeyOf(doc.api_id)), "getSession",
                            EmptyData)
             /\ req' = [req EXCEPT ![p] =
                    [IdleRequest EXCEPT !.pc = "getSession", !.kind = "api",
                                        !.input = input, !.doc = doc]]
    /\ UNCHANGED <<now, sessions, lastWrite, vin, vout, maxSessionSize, hist, timers>>

\* the same in a run of MaxRequests requests
ProcessAPIRequest(p, input) == APIRequestAmong(MaxRequests, p, input)

\* if (!session.data.apiHistory) session.data.apiHistory = [];
\* if (!session.data.activeCritiques) session.data.activeCritiques = [];
\* session.data.apiHistory.push(validatedInput);
\* if (validatedInput.is_critique && validatedInput.critique_focus)
\*     session.data.activeCritiques.push(validatedInput.critique_focus)
StoreBlueprint(data, doc) ==
    [data EXCEPT !.hasHistory = TRUE, !.history = Append(@, doc),
                 !.hasCritiques = TRUE,
                 !.critiques = IF TracksCritique(doc)
                               THEN Append(@, doc.critique_focus.s) ELSE @]

\* processAPIRequest once getSession has returned: the two lists created and
\* pushed onto in the session object the handler holds, then updateSession
\* with session.data up to its first await
APIStoreInHistory(p) ==
    /\ req[p].pc = "getSession" /\ req[p].kind = "api"
    /\ call[p].pc = "done"
    /\ LET session == cell[call[p].session]
           data == StoreBlueprint(session.data, req[p].doc)
           pushed == [session EXCEPT !.data = data]
       IN  /\ BeginCallOn([cell EXCEPT ![call[p].session] = pushed], p,
                          "apiBlueprint", call[p].key, "updateSession", data)
           /\ req' = [req EXCEPT ![p].pc = "updateSession",
                                 ![p].read = session,
                                 ![p].session = pushed]
    /\ UNCHANGED <<now, sessions, lastWrite, calls, vin, vout, maxSessionSize,
                   hist, timers>>

\* processAPIRequest once updateSession has returned or thrown
APIRespond(p) ==
    /\ req[p].pc = "updateSession" /\ req[p].kind = "api"
    /\ call[p].pc = "done"
    /\ LET doc == req[p].doc
           session == req[p].session
       IN  req' = [req EXCEPT ![p] =
               IF call[p].fault = "capacity"
               THEN Failed("api", req[p].input,
                           RethrownCapacity(calculateSize(call[p].arg)))
               ELSE [Responded("api", req[p].input, doc, session,
                        [apiId |-> doc.api_id, apiName |-> doc.api_name,
                         apiVersion |-> doc.api_version,
                         draftNumber |-> JsonNumber(doc.draft_number),
                         totalDrafts |-> JsonNumber(doc.total_drafts),
                         nextStepNeeded |-> doc.next_step_needed,
                         isCritique |-> doc.is_critique,
                         critiqueFocus |-> doc.critique_focus,
                         revisionInstructions |-> doc.revision_instructions,
                         endpointCount |-> Len(doc.endpoints),
                         activeCritiques |-> session.data.critiques,
                         apiHistoryLength |-> Len(session.data.history),
                         isFinalDraft |-> doc.is_final_draft,
                         sessionMetadata |-> session.metadata])
                        EXCEPT !.read = req[p].read]]
    /\ call' = [call EXCEPT ![p] = IdleCall]
    /\ cell' = [cell EXCEPT ![p] = Blank]
    /\ UNCHANGED <<now, sessions, lastWrite, calls, vin, vout, maxSessionSize,
                   hist, timers>>

\* the response or the McpError has reached the client
RequestDone(p) ==
    /\ req[p].pc = "done"
    /\ req' = [req EXCEPT ![p] = IdleRequest]
    /\ UNCHANGED <<now, sessions, cell, call, lastWrite, calls, vin, vout,
                   maxSessionSize, hist, timers>>

\* the common fields of the requests: draft 1 or draft MaxDraft of 3, a plain
\* draft or a critique with its focus
HandlerCommon(dn, crit) ==
    [dn |-> RawNum(dn), td |-> RawNum(3), crit |-> crit,
     focus |-> IF crit = RawBool(TRUE) THEN RawStr(S_a) ELSE RawAbsent,
     instr |-> RawAbsent]

HandlerCommons ==
    {HandlerCommon(dn, crit) : dn \in {1, MaxDraft},
                               crit \in {RawAbsent, RawBool(TRUE)}}

ThoughtRequests ==
    {ThoughtInput(HandlerCommon(dn, RawAbsent), step) :
        dn \in {1, 2, MaxDraft}, step \in {RawAbsent, RawNum(0)}}
ADRRequests ==
    {ADRInput(c, RawStr(KeyText(k))) : c \in HandlerCommons, k \in Keys}
ReviewRequests ==
    {ReviewInput(c, RawStr(KeyText("k1")), <<FileAt(S_x_py)>>,
                 <<FindingOn(S_x_py)>>) : c \in HandlerCommons}
StrategyRequests ==
    {StrategyInput(c, RawStr(KeyText("k1")), RawAbsent) : c \in HandlerCommons}

\* a critique without its focus, which the validator rejects
APIRejected ==
    APIInput([HandlerCommon(1, RawBool(TRUE)) EXCEPT !.focus = RawAbsent],
             RawStr(KeyText("k1")))

APIRequests ==
    {APIInput(c, RawStr(KeyText("k1"))) : c \in HandlerCommons}
        \cup {APIRejected}

InitH ==
    /\ now = 0
    /\ sessions = [k \in Entries |-> NoRef]
    /\ cell = [c \in Cells |-> Blank]
    /\ call = [p \in Procs |-> IdleCall]
    /\ lastWrite = [k \in Entries |-> NoWrite]
    /\ calls = 0
    /\ vin = NoInput
    /\ vout = NoInput
    /\ maxSessionSize = FactoryMaxSessionSize
    /\ hist = NoHistory
    /\ req = [p \in Procs |-> IdleRequest]
    /\ timers = Started

NextH ==
    \/ \E p \in SeqProcs, input \in ThoughtRequests : ProcessThoughtRequest(p, input)
    \/ \E p \in SeqProcs, input \in ReviewRequests : ProcessReviewRequest(p, input)
    \/ \E p \in SeqProcs, input \in StrategyRequests : ProcessStrategyRequest(p, input)
    \/ \E p \in SeqProcs, input \in ADRRequests : ProcessADRRequest(p, input)
    \/ \E p \in SeqProcs : GetSessionResume(p)
    \/ \E p \in SeqProcs : ADRStoreInHistory(p)
    \/ \E p \in SeqProcs : UpdateSessionResume(p)
    \/ \E p \in SeqProcs : ADRRespond(p)
    \/ \E p \in SeqProcs, input \in APIRequests : ProcessAPIRequest(p, input)
    \/ \E p \in SeqProcs : APIStoreInHistory(p)
    \/ \E p \in SeqProcs : APIRespond(p)
    \/ \E p \in SeqProcs : RequestDone(p)
    \/ Cleanup
    \/ Tick

SpecH == InitH /\ [][NextH]_vars


-----------------------------------------------------------------------------
(* Properties of the tool handlers                                         *)

\* the validator of a kind of document, called on its own
ValidatorOf(kind, data) ==
    CASE kind = "thought" -> validateThoughtData(data)
      [] kind = "adr" -> validateADRData(data)
      [] kind = "review" -> validateCodeReviewData(data)
      [] kind = "api" -> validateAPIBlueprintData(data)
      [] kind = "strategy" -> validateImplementationStrategyData(data)

\* the input's draft numbers are numbers with draft_number > total_drafts >= 1
DraftsOutOfOrder(data) ==
    /\ data.draft_number.t = "num" /\ data.total_drafts.t = "num"
    /\ 1 <= data.total_drafts.n
    /\ data.draft_number.n > data.total_drafts.n

\* the history now stored for the key of a request
StoredHistory(kind, data) ==
    CASE kind = "thought" -> hist.thoughtHistory
      [] kind = "review" -> hist.reviewHistory[KeyOf(JsString(data.review_id))]
      [] kind = "strategy" -> hist.strategyHistory[KeyOf(JsString(data.strategy_id))]
      [] kind = "adr" ->
            LET k == KeyOf(JsString(data.id))
            IN  IF sessions[k] = NoRef THEN <<>>
                ELSE cell[sessions[k]].data.history
      [] kind = "api" ->
            LET k == Entry("apiBlueprint", KeyOf(JsString(data.api_id)))
            IN  IF sessions[k] = NoRef THEN <<>>
                ELSE cell[sessions[k]].data.history

\* C6: a request that is valid except that its draft_number is greater than
\* its total_drafts is answered without a fault, the totalDrafts of the
\* response and the total_drafts of the document stored last are its
\* draft_number, and the validator called on the same input on its own
\* throws "Draft number cannot exceed total drafts".
C6_DraftNormalization ==
    \A p \in Procs :
        (req[p].pc = "done" /\ DraftsOutOfOrder(req[p].input)) =>
            LET input == req[p].input
                stored == StoredHistory(req[p].kind, input)
                alone == ValidatorOf(req[p].kind, input)
            IN  /\ req[p].error = NoFault
                /\ req[p].response.totalDrafts = Num(input.draft_number.n)
                /\ stored # <<>> =>
                       stored[Len(stored)].total_drafts = Num(input.draft_number.n)
                /\ ~alone.ok
                /\ alone.error = "Draft number cannot exceed total drafts"

\* an architecture decision with draft_number MaxDraft and total_drafts 3 is
\* answered with an InternalError carrying the validator's message, and
\* nothing has been stored for its key
C6_Witness ==
    \E p \in Procs :
        /\ req[p].pc = "done"
        /\ req[p].kind = "adr"
        /\ req[p].input.draft_number = RawNum(MaxDraft)
        /\ req[p].input.total_drafts = RawNum(3)
        /\ req[p].error = McpError("InternalError",
                                   "Draft number cannot exceed total drafts", <<>>)
        /\ req[p].response = NoInput
        /\ calls = 1
        /\ sessions[KeyOf(JsString(req[p].input.id))] = NoRef


\* caller p's step is a whole call of the handler of the given kind
HandlerCall(p, kind) ==
    req[p].pc = "idle" /\ req'[p].pc = "done" /\ req'[p].kind = kind

\* the documents of the branch with the given key; none when there is no
\* such branch
BranchDocs(bs, id) ==
    IF \E i \in 1..Len(bs) : bs[i].id = id
    THEN bs[CHOOSE i \in 1..Len(bs) : bs[i].id = id].docs
    ELSE <<>>

\* "branch_1_0" and "branch_2_0", the keys of the branches that the requests
\* with step_to_review 0 and draft_number 1 and 2 name
S_branch_1_0 == <<98, 114, 97, 110, 99, 104, 95, 49, 95, 48>>
S_branch_2_0 == <<98, 114, 97, 110, 99, 104, 95, 50, 95, 48>>

ExpectedBranchKey(data) ==
    IF data.draft_number = RawNum(1) THEN S_branch_1_0 ELSE S_branch_2_0

\* C11: the global history of the reasoning-chain tool starts empty; each
\* successful call appends its one document to it and reports the new
\* length; without step_to_review the branch map stays as it is; with
\* step_to_review (0 included) the document is appended to the branch
\* "branch_{draft_number}_{step_to_review}", which is created when missing,
\* and no other branch changes.  A call that fails changes nothing.
C11_ThoughtHistory ==
    /\ hist.thoughtHistory = <<>> /\ hist.branches = <<>>
    /\ [][\A p \in Procs :
            HandlerCall(p, "thought") =>
                LET input == req'[p].input
                    doc == req'[p].doc
                    key == ExpectedBranchKey(input)
                IN  IF req'[p].error # NoFault
                    THEN hist' = hist
                    ELSE /\ hist'.thoughtHistory = Append(hist.thoughtHistory, doc)
                         /\ req'[p].response.thoughtHistoryLength =
                                Len(hist.thoughtHistory) + 1
                         /\ input.step_to_review = RawAbsent =>
                                hist'.branches = hist.branches
                         /\ input.step_to_review # RawAbsent =>
                                /\ BranchDocs(hist'.branches, key) =
                                       Append(BranchDocs(hist.branches, key), doc)
                                /\ \A i \in 1..Len(hist.branches) :
                                       hist.branches[i].id # key =>
                                           hist'.branches[i] = hist.branches[i]
                                /\ Len(hist'.branches) =
                                       Len(hist.branches) +
                                       (IF BranchDocs(hist.branches, key) = <<>>
                                        THEN 1 ELSE 0)
                                /\ req'[p].response.branches =
                                       BranchKeys(hist'.branches)]_vars

\* the scenario of the specification: a first document without
\* step_to_review, then draft 2 with step_to_review 0
C11_Witness ==
    /\ Len(hist.thoughtHistory) = 2
    /\ ~hist.thoughtHistory[1].step_to_review.has
    /\ Len(hist.branches) = 1
    /\ hist.branches[1].id = S_branch_2_0
    /\ hist.branches[1].docs = <<hist.thoughtHistory[2]>>
    /\ hist.thoughtHistory[2].step_to_review = [has |-> TRUE, num |-> Num(0)]
    /\ \E p \in Procs : /\ req[p].pc = "done"
                        /\ req[p].response.thoughtHistoryLength = 2


\* the request of caller p has ended with a fault of its validator
ValidationFault(p) ==
    /\ req[p].pc = "done" /\ req[p].error # NoFault
    /\ ~ValidatorOf(req[p].kind, req[p].input).ok

\* C12: every fault of a handler reaches the caller as a typed protocol
\* error: one of category InvalidParams when the validator found the fault,
\* one of category InternalError for every other fault.
C12_TypedErrors ==
    \A p \in Procs :
        (req[p].pc = "done" /\ req[p].error # NoFault) =>
            /\ req[p].error.code \in {"InvalidParams", "InternalError"}
            /\ ValidationFault(p) <=> req[p].error.code = "InvalidParams"

\* a request that its validator rejects ("Draft number cannot exceed total
\* drafts") has ended with an InternalError carrying the validator's message
C12_Witness ==
    \E p \in Procs :
        /\ ValidationFault(p)
        /\ req[p].error.code = "InternalError"
        /\ req[p].error.message = ValidatorOf(req[p].kind, req[p].input).error
        /\ req[p].error.message = "Draft number cannot exceed total drafts"


\* s is an initial part of t
IsPrefix(s, t) == Len(s) <= Len(t) /\ SubSeq(t, 1, Len(s)) = s

\* the history stored under key k by the session manager; none when the
\* key has no record
StoredUnder(k) ==
    IF sessions[k] = NoRef THEN <<>> ELSE cell[sessions[k]].data.history
StoredUnderNext(k) ==
    IF sessions'[k] = NoRef THEN <<>> ELSE cell'[sessions'[k]].data.history

\* this step evicts the record of key k
Evicts(k) == sessions[k] # NoRef /\ sessions'[k] = NoRef

\* this step is the write of the updateSession of caller p's request
HandlerWrite(p) ==
    /\ req[p].pc = "updateSession" /\ call[p].pc = "size"
    /\ call'[p].pc = "done" /\ call'[p].fault = "none"

\* C13: over handler calls that follow one another, the history of a key is
\* only ever extended: in every step that does not evict the key, the
\* history stored before is an initial part of the history stored after,
\* for the session-backed tools and for the tools with a history map of
\* their own; and each successful call extends the history of its key by the
\* one document it submitted (for the session-backed tools: as long as the
\* key has not been evicted since the call read it).
C13_AppendOnly ==
    [][/\ \A k \in Entries :
            ~Evicts(k) => IsPrefix(StoredUnder(k), StoredUnderNext(k))
       /\ \A k \in Keys :
            /\ IsPrefix(hist.reviewHistory[k], hist'.reviewHistory[k])
            /\ IsPrefix(hist.strategyHistory[k], hist'.strategyHistory[k])
       /\ IsPrefix(hist.thoughtHistory, hist'.thoughtHistory)
       /\ \A p \in Procs :
            /\ (HandlerWrite(p) /\ lastWrite[call[p].key].kind = "refresh") =>
                   StoredUnderNext(call[p].key) =
                       Append(StoredUnder(call[p].key), req[p].doc)
            /\ (HandlerCall(p, "review") /\ req'[p].error = NoFault) =>
                   \E k \in Keys :
                       /\ k = KeyOf(req'[p].doc.review_id)
                       /\ hist'.reviewHistory[k] =
                              Append(hist.reviewHistory[k], req'[p].doc)
            /\ (HandlerCall(p, "strategy") /\ req'[p].error = NoFault) =>
                   \E k \in Keys :
                       /\ k = KeyOf(req'[p].doc.strategy_id)
                       /\ hist'.strategyHistory[k] =
                              Append(hist.strategyHistory[k], req'[p].doc)]_vars

\* two architecture decisions stored one after the other under one key, the
\* second one a critique, and the second response reporting two documents
C13_Witness ==
    \E p \in Procs, k \in Keys :
        /\ req[p].pc = "done" /\ req[p].kind = "adr" /\ req[p].error = NoFault
        /\ Len(StoredUnder(k)) = 2
        /\ StoredUnder(k)[2] = req[p].doc
        /\ StoredUnder(k)[1] # StoredUnder(k)[2]
        /\ req[p].response.historyLength = 2


-----------------------------------------------------------------------------
(* Overlapping callers of one session manager.  Two callers work on one    *)
(* key; their calls interleave at every await, with the cleanup pass and   *)
(* with the clock.                                                         *)

RaceKeys == {"k1"}

\* a payload below the limit and one above it
RacePayloads == {PayloadHistoryOnly, PayloadOneDoc}

NextC ==
    \/ \E p \in Procs, k \in RaceKeys : CallGetSession(p, k)
    \/ \E p \in Procs, k \in RaceKeys, data \in RacePayloads :
           CallUpdateSession(p, k, data)
    \/ \E p \in Procs : GetSessionResume(p)
    \/ \E p \in Procs : UpdateSessionResume(p)
    \/ \E p \in Procs : Return(p)
    \/ Cleanup
    \/ Tick

SpecC == Init /\ [][NextC]_vars

\* the record stored under key k
Stored(k) == cell[sessions[k]]
StoredNext(k) == cell'[sessions'[k]]

\* this step is the write of caller p's getSession, on its own or inside
\* updateSession
GetSessionWrite(p) == call[p].pc = "got" /\ call'[p].pc # "got"

\* this step is the write of caller p's updateSession
UpdateSessionWrite(p) ==
    call[p].pc = "size" /\ call'[p].pc = "done" /\ call'[p].fault = "none"

\* C14: the lastAccessed stored for a key never goes back, whatever the
\* interleaving of getSession and updateSession calls (and of cleanup
\* passes, after which a new record starts at the current time), and the
\* write of every getSession and of every successful updateSession leaves
\* the stored lastAccessed at the time of the write.
C14_LastAccessedMonotone ==
    [][/\ \A k \in Keys :
            (sessions[k] # NoRef /\ sessions'[k] # NoRef) =>
                Stored(k).metadata.lastAccessed <=
                    StoredNext(k).metadata.lastAccessed
       /\ \A p \in Procs :
            (GetSessionWrite(p) \/ UpdateSessionWrite(p)) =>
                /\ sessions'[call[p].key] # NoRef
                /\ StoredNext(call[p].key).metadata.lastAccessed = now'
                /\ cell'[call'[p].session].metadata.lastAccessed = now']_vars

\* two callers have one call each in progress on one key, the one an
\* updateSession and the other a getSession; the clock has moved since one
\* of them read the record, and the stored lastAccessed is the current time
C14_Witness ==
    /\ call["p1"].op = "updateSession" /\ call["p1"].pc = "done"
    /\ call["p1"].fault = "none"
    /\ call["p2"].op = "getSession" /\ call["p2"].pc = "done"
    /\ call["p1"].key = call["p2"].key
    /\ sessions[call["p1"].key] # NoRef
    /\ now > 0
    /\ Stored(call["p1"].key).metadata.lastAccessed = now
    /\ Stored(call["p1"].key).metadata.created < now
    /\ cell["p1"].metadata.lastAccessed # cell["p2"].metadata.lastAccessed


\* C15: in every reachable state, under any interleaving of getSession,
\* updateSession and cleanup, a stored record that a successful
\* updateSession has written since it was created holds the payload of the
\* last such updateSession, and its metadata.size is the serialized byte
\* length of that payload.
C15_SizeOfLastUpdate ==
    \A k \in Keys :
        (sessions[k] # NoRef /\ lastWrite[k].updated.has) =>
            /\ Stored(k).data = lastWrite[k].updated.data
            /\ Stored(k).metadata.size = calculateSize(lastWrite[k].updated.data)

\* an updateSession has stored {"adrHistory":[]} (17 bytes) and returned;
\* then the getSession of the other caller, which had read the record before
\* that write, wrote its copy back: the store holds the payload {} with size
\* 0 again
C15_Witness ==
    \E p, q \in Procs, k \in Keys :
        /\ call[p].op = "updateSession" /\ call[p].pc = "done"
        /\ call[p].fault = "none" /\ call[p].key = k
        /\ call[p].arg = PayloadHistoryOnly
        /\ call[q].op = "getSession" /\ call[q].pc = "done" /\ call[q].key = k
        /\ lastWrite[k].kind = "refresh"
        /\ lastWrite[k].updated = [has |-> TRUE, data |-> PayloadHistoryOnly]
        /\ sessions[k] # NoRef
        /\ Stored(k).data = EmptyData
        /\ Stored(k).metadata.size = 0


\* C16: a getSession that missed creates its key only once.  When a caller
\* that read a miss comes to write and the key has a record by then (the
\* other caller's call, which overlaps with this one, created it), the
\* stored record is not replaced by a second creation: its created
\* timestamp and its payload stay, and the caller returns a version-1 record
\* with that same created timestamp.
C16_CreateOnce ==
    [][\A q \in Procs :
            (/\ GetSessionWrite(q)
             /\ call[q].session = NoRef
             /\ sessions[call[q].key] # NoRef) =>
                LET k == call[q].key
                    returned == cell'[call'[q].session]
                IN  /\ StoredNext(k).metadata.created = Stored(k).metadata.created
                    /\ StoredNext(k).data = Stored(k).data
                    /\ returned.metadata.created = Stored(k).metadata.created
                    /\ returned.metadata.version = 1]_vars

\* both callers' getSession on the unseen key have returned a version-1
\* record, with different created timestamps, and the store holds the
\* later one
C16_Witness ==
    \E k \in Keys :
        /\ \A p \in Procs : /\ call[p].op = "getSession" /\ call[p].pc = "done"
                            /\ call[p].key = k
                            /\ call[p].expect.kind = "none"
                            /\ cell[p].metadata.version = 1
        /\ cell["p1"].metadata.created < cell["p2"].metadata.created
        /\ sessions[k] # NoRef
        /\ Stored(k).metadata.created = cell["p2"].metadata.created


-----------------------------------------------------------------------------
(* Overlapping calls of a session-backed handler on one key                *)

\* what each of the two overlapping callers submits: the one a plain draft,
\* the other a critique with its focus
APIRaceRequest(p) ==
    APIInput(HandlerCommon(1, IF p = "p1" THEN RawAbsent ELSE RawBool(TRUE)),
             RawStr(KeyText("k1")))

\* the blueprint of the first request of a run, whose call stores the
\* history that later calls start from: a critique at draft 2 of 3
APIFirstRequest ==
    APIInput(HandlerCommon(2, RawBool(TRUE)), RawStr(KeyText("k1")))

\* the requests of a run with overlapping calls: the first one, and one for
\* each caller
RaceRequests == 1 + Cardinality(Procs)

\* the first request of a run is answered and delivered, and its call has
\* stored a history; then the callers make the other requests on the same
\* api_id at any moment, each step of a call at any moment after the step
\* before, with cleanup passes and clock steps in between
NextHCA ==
    \/ \E p \in Procs :
         /\ calls = 1 => \A q \in Procs : req[q].pc = "idle"
         /\ APIRequestAmong(RaceRequests, p,
                            IF calls = 0 THEN APIFirstRequest
                            ELSE APIRaceRequest(p))
    \/ \E p \in Procs : GetSessionResume(p)
    \/ \E p \in Procs : APIStoreInHistory(p)
    \/ \E p \in Procs : UpdateSessionResume(p)
    \/ \E p \in Procs : APIRespond(p)
    \/ \E p \in Procs : RequestDone(p)
    \/ CleanupOf("apiBlueprint")
    \/ Tick

SpecHCA == InitH /\ [][NextHCA]_vars

\* the history that getSession returned to the handler call of caller p
HistoryRead(p) == req[p].read.data.history

\* the active critiques that getSession returned with it
CritiquesRead(p) == req[p].read.data.critiques

\* the entry of the session that the answered request of caller p worked on
RequestEntry(p) ==
    IF req[p].kind = "api"
    THEN Entry("apiBlueprint", KeyOf(req[p].doc.api_id))
    ELSE Entry("adr", KeyOf(req[p].doc.id))

\* both callers' requests on entry k have been answered without a fault
BothAnswered(k) ==
    \A p \in Procs : /\ req[p].pc = "done" /\ req[p].error = NoFault
                     /\ RequestEntry(p) = k

\* the critique_focus of those of the documents that are critiques with a
\* focus, in their order
RECURSIVE Focuses(_)
Focuses(docs) ==
    IF docs = <<>> THEN <<>>
    ELSE (IF TracksCritique(Head(docs)) THEN <<Head(docs).critique_focus.s>>
          ELSE <<>>) \o Focuses(Tail(docs))

\* C17: two handler calls on one key that overlap, both starting from the
\* stored history h (or the second one from h with the first one's document),
\* submitting a and b: once both are answered the stored record holds the
\* complete payload that one of the two passed to updateSession.  Its history
\* is h+[a], h+[b], h+[a,b] or h+[b,a]; the active critiques of an API
\* blueprint session are those stored with h followed by the focus of each
\* critique among the documents stored after h, and of no other; and
\* metadata.size is the serialized length of the stored payload.
C17_LastWriteWins ==
    \A k \in Entries :
        LET a == req["p1"].doc
            b == req["p2"].doc
            r1 == HistoryRead("p1")
            r2 == HistoryRead("p2")
            first == IF Len(r1) <= Len(r2) THEN "p1" ELSE "p2"
            h == HistoryRead(first)
            stored == Stored(k).data
        IN  (/\ BothAnswered(k)
             /\ sessions[k] # NoRef
             /\ r1 = r2 \/ r2 = Append(r1, a) \/ r1 = Append(r2, b)) =>
                /\ stored.history \in
                       {h \o <<a>>, h \o <<b>>, h \o <<a, b>>, h \o <<b, a>>}
                /\ stored.hasHistory
                /\ stored \in {req[p].session.data : p \in Procs}
                /\ req["p1"].kind = "api" =>
                       /\ stored.hasCritiques
                       /\ stored.critiques =
                              CritiquesRead(first)
                                  \o Focuses(SubSeq(stored.history, Len(h) + 1,
                                                    Len(stored.history)))
                /\ Stored(k).metadata.size = calculateSize(stored)

\* an API blueprint session held a history of one critique and its focus;
\* both callers read that history, the one then submitted a plain draft and
\* the other a critique, and both are answered: the store holds the history
\* read with the critique only, and the two active critiques; the plain
\* draft is lost, though its response reports a history of two documents
C17_Witness ==
    \E k \in Entries :
        /\ BothAnswered(k)
        /\ sessions[k] # NoRef
        /\ Len(HistoryRead("p1")) = 1
        /\ HistoryRead("p1") = HistoryRead("p2")
        /\ CritiquesRead("p1") = <<S_a>>
        /\ CritiquesRead("p2") = <<S_a>>
        /\ req["p1"].doc # req["p2"].doc
        /\ req["p1"].doc # HistoryRead("p1")[1]
        /\ req["p2"].doc # HistoryRead("p1")[1]
        /\ ~TracksCritique(req["p1"].doc) /\ TracksCritique(req["p2"].doc)
        /\ Stored(k).data.history = Append(HistoryRead("p1"), req["p2"].doc)
        /\ Stored(k).data.critiques = <<S_a, S_a>>
        /\ req["p1"].response.apiHistoryLength = 2
        /\ req["p1"].response.activeCritiques = <<S_a>>
        /\ req["p2"].response.apiHistoryLength = 2
        /\ req["p2"].response.activeCritiques = <<S_a, S_a>>
        /\ Stored(k).metadata.size = calculateSize(Stored(k).data)
        /\ Stored(k).metadata.size > calculateSize(req["p1"].read.data)


-----------------------------------------------------------------------------
(* A cleanup pass during an access                                         *)

\* a record as the session manager writes it at or before time t: version 1,
\* created no later than lastAccessed, and size 0 with the payload {} or the
\* serialized length of its payload
WellFormed(rec, t) ==
    /\ rec.metadata.version = 1
    /\ rec.metadata.created <= rec.metadata.lastAccessed
    /\ rec.metadata.lastAccessed <= t
    /\ \/ rec.data = EmptyData /\ rec.metadata.size = 0
       \/ rec.data # EmptyData /\ rec.metadata.size = calculateSize(rec.data)

\* C18: when a cleanup pass evicts a key during a getSession or an
\* updateSession on it, or just before, the access does not fail; getSession
\* returns the record that was stored before the eviction (with lastAccessed
\* refreshed) or a new empty version-1 record; updateSession fails only on
\* the size limit; and afterwards the key has no record or one well-formed
\* record.
C18_EvictionDuringAccess ==
    [][/\ \A p \in Procs :
            LET k == call[p].key
                returned == cell'[call'[p].session]
            IN  /\ (/\ GetSessionWrite(p)
                    /\ lastWrite[k].kind = "evict") =>
                       /\ call'[p].fault = "none"
                       /\ returned = IF call[p].session # NoRef
                                     THEN RefreshedSession(call[p].expect.rec, now)
                                     ELSE NewSession(now, now')
                       /\ sessions'[k] # NoRef
                       /\ StoredNext(k) = returned
                /\ (/\ call[p].pc = "size" /\ call'[p].pc = "done"
                    /\ lastWrite[k].kind = "evict") =>
                       /\ call'[p].fault = "capacity" <=>
                              calculateSize(call[p].arg) > maxSessionSize
                       /\ call'[p].fault = "none" =>
                              /\ sessions'[k] # NoRef
                              /\ StoredNext(k).data = call[p].arg
       /\ \A k \in Keys :
            sessions'[k] # NoRef => WellFormed(StoredNext(k), now')]_vars

\* a getSession read a record with a payload, the cleanup pass evicted the
\* key, and the getSession completed: it has returned the old record with
\* lastAccessed at the current time, and that record is stored again
C18_Witness ==
    \E p \in Procs, k \in Keys :
        /\ call[p].op = "getSession" /\ call[p].pc = "done" /\ call[p].key = k
        /\ call[p].expect.kind = "update"
        /\ lastWrite[k].kind = "refresh"
        /\ lastWrite[k].updated = NoUpdate
        /\ sessions[k] # NoRef
        /\ Stored(k) = Returned(p)
        /\ Stored(k).data = call[p].expect.rec.data
        /\ Stored(k).data # EmptyData
        /\ Stored(k).metadata.lastAccessed = now
        /\ now - call[p].expect.rec.metadata.lastAccessed > MaxSessionAge


-----------------------------------------------------------------------------
(* The cleanup interval of one manager, whose storage provider may reject  *)
(* a pass                                                                  *)

NextT ==
    \/ \E p \in SeqProcs, k \in RaceKeys : CallGetSession(p, k)
    \/ \E p \in SeqProcs : GetSessionResume(p)
    \/ \E p \in SeqProcs : Return(p)
    \/ TimerCleanup(StoreManager)
    \/ TimerCleanupFails(StoreManager)
    \/ Destroy(StoreManager)
    \/ Tick

SpecT == InitH /\ [][NextT]_vars

\* setInterval calls the callback again and again for as long as the
\* interval is not cleared
TimerPass(m) == TimerCleanup(m) \/ TimerCleanupFails(m)

SpecTF == SpecT /\ WF_vars(TimerPass(StoreManager))

\* this step starts a pass of manager m
StartsPass(m) == timers'[m].passes # timers[m].passes

\* C19: a cleanup pass that fails is only logged: the step changes nothing
\* but the record of the pass, the interval stays, and no caller sees a
\* fault; a pass that does not fail runs storage.cleanup(maxSessionAge); and
\* after a failed pass, as long as destroy() is not called, a later pass
\* starts.
C19_KeepsRunning ==
    /\ [][\A m \in Managers :
            /\ (StartsPass(m) /\ timers'[m].failed) =>
                   /\ timers'[m].armed /\ ~timers'[m].destroyed
                   /\ UNCHANGED <<sessions, cell, call, lastWrite, req, hist>>
            /\ (StartsPass(m) /\ ~timers'[m].failed /\ m = StoreManager) =>
                   sessions' = InMemoryCleanup(StoreManager, MaxSessionAge, now)]_vars
    /\ \A m \in Managers, b \in {0, 1} :
            (timers[m].failed /\ timers[m].passes = b /\ ~timers[m].destroyed)
                ~> (timers[m].passes # b \/ timers[m].destroyed)

\* the pass before the last one failed, the last one did not, the interval
\* is still there, and a pass has evicted the key
C19_Witness ==
    /\ timers[StoreManager].afterFailure
    /\ ~timers[StoreManager].failed
    /\ timers[StoreManager].armed
    /\ ~timers[StoreManager].destroyed
    /\ lastWrite["k1"].kind = "evict"
    /\ sessions["k1"] = NoRef

-----------------------------------------------------------------------------
(* The cleanup intervals of the registry's managers                        *)

NextF ==
    \/ \E p \in SeqProcs, k \in RaceKeys : CallGetSession(p, k)
    \/ \E p \in SeqProcs : GetSessionResume(p)
    \/ \E p \in SeqProcs : Return(p)
    \/ \E m \in Managers : TimerCleanup(m)
    \/ \E m \in Managers : Destroy(m)
    \/ FactoryCleanup
    \/ Tick

SpecF == InitH /\ [][NextF]_vars

\* C20: once destroy() has been called on a manager, no pass of its interval
\* starts any more and the interval stays cleared; destroy() on a destroyed
\* manager changes nothing; and SessionManagerFactory.cleanup leaves every
\* manager of the registry destroyed.
C20_NoPassAfterDestroy ==
    [][/\ \A m \in Managers :
            /\ timers[m].destroyed =>
                   /\ ~StartsPass(m)
                   /\ timers'[m].destroyed /\ ~timers'[m].armed
            /\ (Destroy(m) /\ timers[m].destroyed) => UNCHANGED vars
            /\ destroy(destroy(timers'[m])) = destroy(timers'[m])
       /\ FactoryCleanup =>
            \A m \in Managers : timers'[m].destroyed /\ ~timers'[m].armed]_vars

\* every manager is destroyed, after some passes of two of the intervals and
\* after the key of the store was evicted by one
C20_Witness ==
    /\ \A m \in Managers : timers[m].destroyed /\ ~timers[m].armed
    /\ timers[StoreManager].passes = 1
    /\ timers["apiBlueprint"].passes = 1
    /\ timers["codeReview"].passes = 0
    /\ lastWrite["k1"].kind = "evict"

-----------------------------------------------------------------------------
(* Order of the checks of the code review validator                         *)

\* the findings of the validated code review input
ReviewFindings == vin.data.findings.items

\* the validated input is a code review whose files are all well formed and
\* which has a finding with an invalid severity and an invalid line range
SeverityAndRangeFault ==
    /\ Validated /\ vin.kind = "review"
    /\ \E i \in 1..Len(ReviewFindings) :
           BadSeverity(ReviewFindings[i]) /\ BadLineRange(ReviewFindings[i])

\* C21: validation reports the fault of the earliest phase in the order
\* presence, type coercion, enum membership, numeric range, cross-field rule,
\* referential integrity: a code review input with a finding whose severity
\* is invalid (enum phase) and whose line range is invalid (range phase) is
\* rejected with the enum fault "Invalid finding severity".
C21_PhaseOrder ==
    SeverityAndRangeFault =>
        /\ ~vout.res.ok
        /\ vout.res.error = "Invalid finding severity"

\* the validator answered such an input with the line range fault
C21_Witness ==
    /\ SeverityAndRangeFault
    /\ ~vout.res.ok
    /\ vout.res.error =
           "Invalid line range: start line must be >= 1 and end line must be >= start line"

-----------------------------------------------------------------------------
(* Draft numbers of accepted documents                                      *)

\* the typed document of an accepted input has numbers for its draft
\* numbers, with 1 <= draft_number <= total_drafts
DraftsInRange(doc) ==
    /\ ~doc.draft_number.nan /\ ~doc.total_drafts.nan
    /\ NumLe(Num(1), doc.draft_number) /\ NumLe(Num(1), doc.total_drafts)
    /\ NumLe(doc.draft_number, doc.total_drafts)

\* Number(draft_number) or Number(total_drafts) of the input is NaN
DraftCoercesToNaN(data) ==
    JsNumber(data.draft_number).nan \/ JsNumber(data.total_drafts).nan

\* C22: for each of the five kinds, every document the validator accepts has
\* a numeric draft_number >= 1 and a numeric total_drafts >= 1 with
\* draft_number <= total_drafts, and an input whose draft_number or
\* total_drafts coerces to NaN is rejected.
C22_DraftBounds ==
    Validated =>
        /\ vout.res.ok => DraftsInRange(vout.res.doc)
        /\ DraftCoercesToNaN(vin.data) => ~vout.res.ok

\* an input whose draft_number is a text that is no number is accepted, and
\* the draft_number of the typed document is NaN
C22_Witness ==
    /\ Validated
    /\ vin.data.draft_number = RawStr(S_a)
    /\ vout.res.ok
    /\ vout.res.doc.draft_number = NaN

-----------------------------------------------------------------------------
(* Where the keyed tools keep their histories                               *)

\* this step changes the history that a keyed tool keeps for key k outside
\* every session record, in a map of its module
ChangesModuleHistory(k) ==
    \/ hist'.reviewHistory[k] # hist.reviewHistory[k]
    \/ hist'.strategyHistory[k] # hist.strategyHistory[k]

\* C23: every keyed tool keeps the history of a key only through its session
\* manager: each step that changes the history kept for a key (by the
\* architecture decision, API blueprint, code review or strategy tool) is a
\* write of the
\* session manager on that key, by getSession or by a successful
\* updateSession, or the eviction of the key's record; so the history
\* underlies the size limit and the eviction.
C23_HistoryInSessions ==
    [][\A k \in Entries :
          (\/ k \in Keys /\ ChangesModuleHistory(k)
           \/ StoredUnderNext(k) # StoredUnder(k)) =>
              \/ Evicts(k)
              \/ \E p \in Procs :
                     /\ call[p].key = k
                     /\ GetSessionWrite(p) \/ UpdateSessionWrite(p)]_vars

\* two code reviews have been answered under one key, the second response
\* reporting two documents, although no session record has ever been written
\* and a time longer than the maximal session age lies behind the first one
C23_Witness ==
    \E p \in Procs, k \in Keys :
        /\ req[p].pc = "done" /\ req[p].kind = "review" /\ req[p].error = NoFault
        /\ KeyOf(req[p].doc.review_id) = k
        /\ Len(hist.reviewHistory[k]) = 2
        /\ req[p].response.reviewHistoryLength = 2
        /\ \A j \in Keys : sessions[j] = NoRef /\ lastWrite[j] = NoWrite
        /\ now > MaxSessionAge

-----------------------------------------------------------------------------
(* The list of active critiques of a response                               *)

\* the critique_focus of the documents of a history that are critiques with
\* a focus that is not empty, in the order of the history
RECURSIVE CritiqueFoci(_)
CritiqueFoci(history) ==
    IF history = <<>> THEN <<>>
    ELSE LET doc == Head(history)
         IN  (IF /\ doc.is_critique = "true"
                 /\ doc.critique_focus.has /\ doc.critique_focus.s # <<>>
              THEN <<doc.critique_focus.s>> ELSE <<>>)
             \o CritiqueFoci(Tail(history))

\* the request of caller p is one of a keyed kind, answered without a fault
KeyedAnswer(p) ==
    /\ req[p].pc = "done" /\ req[p].error = NoFault
    /\ req[p].kind \in {"adr", "api", "review", "strategy"}

\* C24: the response to a document of a keyed kind carries the list of
\* active critiques of its key, which is, in submission order, the
\* critique_focus of the accepted documents of the key that are critiques
\* with a focus that is not empty.
C24_ActiveCritiques ==
    \A p \in Procs :
        KeyedAnswer(p) =>
            /\ "activeCritiques" \in DOMAIN req[p].response
            /\ req[p].response.activeCritiques =
                   CritiqueFoci(StoredHistory(req[p].kind, req[p].input))

\* an architecture decision that is a critique with a focus has been stored
\* and answered, and the response has no list of active critiques
C24_Witness ==
    \E p \in Procs :
        /\ KeyedAnswer(p) /\ req[p].kind = "adr"
        /\ req[p].doc.is_critique = "true"
        /\ req[p].doc.critique_focus = Some(S_a)
        /\ StoredUnder(KeyOf(req[p].doc.id)) # <<>>
        /\ "activeCritiques" \notin DOMAIN req[p].response
        /\ ~cell[sessions[KeyOf(req[p].doc.id)]].data.hasCritiques

-----------------------------------------------------------------------------
(* Eviction by the cleanup interval.  One caller reads and writes the keys  *)
(* of a manager over the in-memory store, whose cleanup never rejects; the  *)
(* manager's interval fires again and again until destroy() clears it.      *)

NextE ==
    \/ \E p \in SeqProcs, k \in Keys : CallGetSession(p, k)
    \/ \E p \in SeqProcs, k \in Keys : CallUpdateSession(p, k, PayloadHistoryOnly)
    \/ \E p \in SeqProcs : GetSessionResume(p)
    \/ \E p \in SeqProcs : UpdateSessionResume(p)
    \/ \E p \in SeqProcs : Return(p)
    \/ TimerCleanup(StoreManager)
    \/ Destroy(StoreManager)
    \/ Tick

SpecE == InitH /\ [][NextE]_vars /\ WF_vars(TimerCleanup(StoreManager))

\* key k has a record that is older than the maximal session age
StoredExpired(k) ==
    sessions[k] # NoRef /\ Expired(Stored(k), MaxSessionAge, now)

\* C25: while the manager is not destroyed, a record that has become older
\* than maxSessionAge is removed by a pass of the interval unless it is read
\* or written again first (which makes it young again): every pass removes
\* exactly the records that are too old, a pass eventually runs, and the
\* getSession that reads the key after the eviction creates and returns a
\* new record with no data, size 0 and version 1.
C25_EventualEviction ==
    /\ [][/\ StartsPass(StoreManager) =>
                \A k \in Keys : sessions'[k] =
                    IF StoredExpired(k) THEN NoRef ELSE sessions[k]
          /\ \A p \in Procs :
                (GetSessionWrite(p) /\ call[p].expect.kind = "evict") =>
                    /\ StoredNext(call[p].key) = NewSession(now, now')
                    /\ cell'[call'[p].session] = NewSession(now, now')]_vars
    /\ \A k \in Keys :
          (StoredExpired(k) /\ ~timers[StoreManager].destroyed)
              ~> (~StoredExpired(k) \/ timers[StoreManager].destroyed)

\* a record was written by updateSession, evicted by a pass of the interval,
\* and the getSession that came next has returned a new, empty record
C25_Witness ==
    \E p \in Procs :
        /\ GetReturned(p)
        /\ call[p].expect.kind = "evict"
        /\ \E t \in 0..now : Returned(p) = NewSession(t, now)
        /\ Stored(call[p].key) = Returned(p)
        /\ timers[StoreManager].passes = 1
        /\ ~timers[StoreManager].destroyed

-----------------------------------------------------------------------------
(* getSession on a key that has a record, overlapping with updateSession    *)

\* this step is the write of caller p's getSession call, which had read a
\* record of its key, and the key has a record now
GetSessionHitWrite(p) ==
    /\ GetSessionWrite(p)
    /\ call[p].op = "getSession"
    /\ call[p].session # NoRef
    /\ sessions[call[p].key] # NoRef

\* C26: a getSession on a key that has a record only refreshes lastAccessed:
\* under any interleaving with an updateSession of another caller, its write
\* leaves the stored data and metadata.size as they are, so that they stay
\* those of the most recent successful updateSession.
C26_GetSessionOnlyRefreshes ==
    [][\A p \in Procs :
          GetSessionHitWrite(p) =>
              /\ StoredNext(call[p].key).data = Stored(call[p].key).data
              /\ StoredNext(call[p].key).metadata.size =
                     Stored(call[p].key).metadata.size]_vars

\* caller q's getSession read the record of a key while it still had the
\* empty payload it was created with; the updateSession of the other caller
\* then stored {"adrHistory":[]} with size 17; the write of q's getSession
\* has put the empty payload with size 0 back
C26_Witness ==
    \E p, q \in Procs, k \in Keys :
        /\ p # q
        /\ call[p].op = "updateSession" /\ call[p].pc = "done"
        /\ call[p].fault = "none" /\ call[p].key = k
        /\ call[q].op = "getSession" /\ call[q].pc = "done" /\ call[q].key = k
        /\ call[q].expect.kind \in {"create", "refresh"}
        /\ ~call[q].expect.updated.has
        /\ lastWrite[k].kind = "refresh"
        /\ lastWrite[k].updated = [has |-> TRUE, data |-> call[p].arg]
        /\ call[p].arg # EmptyData
        /\ sessions[k] # NoRef
        /\ Returned(q).data = EmptyData
        /\ Stored(k) = Returned(q)
        /\ Stored(k).metadata.lastAccessed = now

-----------------------------------------------------------------------------
(* Requests that the validator rejects                                      *)

\* this step is a whole handler call of caller p that ends with the fault of
\* its validator
RejectedCall(p) ==
    /\ req[p].pc = "idle" /\ req'[p].pc = "done"
    /\ req'[p].error # NoFault
    /\ ~ValidatorOf(req'[p].kind, req'[p].input).ok

\* C27: a handler call that fails validation changes nothing: no session
\* record is created or refreshed, no session manager call is begun, and no
\* history, branch or list of critiques is extended; the call ends in the
\* step that validates, with the validator's message, so every later
\* response is what it would be had the call not been made.
C27_RejectedChangesNothing ==
    [][\A p \in Procs :
          RejectedCall(p) =>
              /\ UNCHANGED <<sessions, cell, lastWrite, call, hist, now, timers>>
              /\ req'[p].error.message =
                     ValidatorOf(req'[p].kind, req'[p].input).error]_vars

\* a code review has been stored under a key and a second one for the same
\* key has been rejected: the history of the key has the first one only
C27_Witness ==
    \E p \in Procs, k \in Keys :
        /\ ValidationFault(p) /\ req[p].kind = "review"
        /\ KeyOf(JsString(req[p].input.review_id)) = k
        /\ calls = 2
        /\ Len(hist.reviewHistory[k]) = 1
        /\ hist.reviewHistory[k][1].draft_number = Num(1)
        /\ \A j \in Keys : sessions[j] = NoRef

-----------------------------------------------------------------------------
(* Keys and managers.  One caller calls getSession, updateSession and       *)
(* deleteSession on managers of the registry: on two session ids of the     *)
(* architecture decision manager and on the session id "k1" of the API      *)
(* blueprint manager.                                                       *)

\* the calls: the manager and the session id
ManagerCalls ==
    {<<StoreManager, k>> : k \in Keys} \cup {<<"apiBlueprint", "k1">>}

NextD ==
    \/ \E p \in SeqProcs, c \in ManagerCalls : ManagerGetSession(p, c[1], c[2])
    \/ \E p \in SeqProcs, c \in ManagerCalls, data \in RacePayloads :
           ManagerUpdateSession(p, c[1], c[2], data)
    \/ \E p \in SeqProcs, c \in ManagerCalls : ManagerDeleteSession(p, c[1], c[2])
    \/ \E p \in SeqProcs : GetSessionResume(p)
    \/ \E p \in SeqProcs : UpdateSessionResume(p)
    \/ \E p \in SeqProcs : Return(p)
    \/ Tick

\* the managers are those of the registry, constructed with its size limit
SpecD == InitH /\ [][NextD]_vars

\* this step is one of a call of caller p on manager m
StepOfCallOn(p, m) ==
    /\ call'[p] # call[p]
    /\ IF call'[p].pc = "idle" THEN call[p].manager = m ELSE call'[p].manager = m

\* the entry that the call of caller p in this step addresses
EntryOfCall(p) == IF call'[p].pc = "idle" THEN call[p].key ELSE call'[p].key

\* this step leaves the entry e as it is: the same record or none
EntryUnchanged(e) ==
    /\ sessions'[e] = sessions[e]
    /\ cell'[e] = cell[e]

\* C28: no step of a getSession, updateSession or deleteSession call on a
\* session id of one manager changes the record under another session id of
\* that manager, or any record of another manager: the call addresses an
\* entry of its own manager's store, and every other entry stays as it is.
C28_Separation ==
    [][\A p \in Procs, m \in Managers :
          StepOfCallOn(p, m) =>
              /\ EntryOfCall(p) \in StoreOf(m)
              /\ \A e \in Entries \ {EntryOfCall(p)} : EntryUnchanged(e)]_vars

\* the session id "k1" has a record with a history in the store of the
\* architecture decision manager, and after a getSession of the API
\* blueprint manager on "k1" a new, empty record in the store of that one
C28_Witness ==
    \E p \in Procs :
        /\ call[p].op = "getSession" /\ call[p].pc = "done"
        /\ call[p].manager = "apiBlueprint"
        /\ sessions[ApiEntry] # NoRef
        /\ Stored(ApiEntry).data = EmptyData
        /\ sessions["k1"] # NoRef
        /\ Stored("k1").data = PayloadHistoryOnly
        /\ sessions["k2"] = NoRef

-----------------------------------------------------------------------------
(* Overlapping callers of the handlers that keep their histories in maps    *)
(* of their modules.  A handler call has no await: it runs from its         *)
(* validator to its return in one stretch; its caller gets the response     *)
(* later, and the other caller's call may run in between.                   *)

NextHP ==
    \/ \E p \in Procs, input \in ThoughtRequests : ProcessThoughtRequest(p, input)
    \/ \E p \in Procs, input \in ReviewRequests : ProcessReviewRequest(p, input)
    \/ \E p \in Procs, input \in StrategyRequests : ProcessStrategyRequest(p, input)
    \/ \E p \in Procs : RequestDone(p)

SpecHP == InitH /\ [][NextHP]_vars

\* the history that the request of caller p belongs to, now and after the step
HistoryOf(p) == StoredHistory(req[p].kind, req[p].input)
HistoryOfNext(p) ==
    CASE req'[p].kind = "thought" -> hist'.thoughtHistory
      [] req'[p].kind = "review" ->
            hist'.reviewHistory[KeyOf(JsString(req'[p].input.review_id))]
      [] req'[p].kind = "strategy" ->
            hist'.strategyHistory[KeyOf(JsString(req'[p].input.strategy_id))]
HistoryBefore(p) ==
    CASE req'[p].kind = "thought" -> hist.thoughtHistory
      [] req'[p].kind = "review" ->
            hist.reviewHistory[KeyOf(JsString(req'[p].input.review_id))]
      [] req'[p].kind = "strategy" ->
            hist.strategyHistory[KeyOf(JsString(req'[p].input.strategy_id))]

\* the length of the history that the response to caller p reports
ReportedLength(p) ==
    CASE req[p].kind = "thought" -> req[p].response.thoughtHistoryLength
      [] req[p].kind = "review" -> req[p].response.reviewHistoryLength
      [] req[p].kind = "strategy" -> req[p].response.strategyHistoryLength

\* the requests of both callers, of one kind, are answered without a fault
\* and neither caller has taken its response yet
BothStored(kind) ==
    \A p \in Procs :
        req[p].pc = "done" /\ req[p].kind = kind /\ req[p].error = NoFault

\* C29: the calls of the handlers with a history map of their module are
\* atomic, however the callers overlap: each successful call extends the
\* history of its key by exactly its document and reports the new length, a
\* call that fails and a step that is no call leave every history as it is;
\* so after n successful calls on a key its history has n documents, and
\* when two callers' calls on one key have both been answered, both their
\* documents are in the history, each at the place that the length reported
\* to its caller names.
C29_AtomicAppend ==
    /\ [][/\ \A p \in Procs :
               (req[p].pc = "idle" /\ req'[p].pc = "done") =>
                   IF req'[p].error = NoFault
                   THEN HistoryOfNext(p) = Append(HistoryBefore(p), req'[p].doc)
                   ELSE hist' = hist
          /\ (\A p \in Procs : ~(req[p].pc = "idle" /\ req'[p].pc = "done")) =>
                 hist' = hist]_vars
    /\ [](\A kind \in {"thought", "review", "strategy"} :
             BothStored(kind) =>
                 LET h == HistoryOf("p1")
                     i == ReportedLength("p1")
                     j == ReportedLength("p2")
                 IN  /\ i # j
                     /\ {i, j} \subseteq 1..Len(h)
                     /\ h[i] = req["p1"].doc
                     /\ h[j] = req["p2"].doc)

\* two strategies for one key, a plain draft and a critique, were submitted
\* by two callers, the second call made before the first caller had its
\* response: the history of the key has both, in the order of the calls
C29_Witness ==
    /\ BothStored("strategy")
    /\ req["p1"].doc # req["p2"].doc
    /\ hist.strategyHistory["k1"] = <<req["p2"].doc, req["p1"].doc>>
    /\ req["p1"].response.strategyHistoryLength = 2
    /\ req["p2"].response.strategyHistoryLength = 1

-----------------------------------------------------------------------------
(* What an updateSession that fails leaves behind                           *)

\* this step is the size check of caller p's updateSession, and it fails
CapacityFault(p) ==
    call[p].pc = "size" /\ call'[p].pc = "done" /\ call'[p].fault = "capacity"

\* this step is the write of the getSession with which caller p's
\* updateSession begins
InnerGetSessionWrite(p) ==
    GetSessionWrite(p) /\ call[p].op = "updateSession"

\* C30: an updateSession that ends with a capacity fault has side effects.
\* Its getSession runs before the size check and writes the key: a new
\* record with no data, size 0 and version 1 when the call found none, the
\* record it read with lastAccessed set to the time of the write when it
\* found one; the size check that fails (the payload is larger than
\* maxSessionSize) then writes nothing, so of a record that existed only
\* data, size, created and version are what they were.
C30_FailedUpdateSideEffects ==
    [][\A p \in Procs :
          /\ InnerGetSessionWrite(p) =>
                 LET k == call[p].key
                     read == cell[call[p].session]
                 IN  IF call[p].session = NoRef
                     THEN StoredNext(k) = Session(EmptyData, now, now', 0, 1)
                     ELSE /\ StoredNext(k).metadata.lastAccessed = now
                          /\ StoredNext(k).data = read.data
                          /\ StoredNext(k).metadata.size = read.metadata.size
                          /\ StoredNext(k).metadata.created = read.metadata.created
                          /\ StoredNext(k).metadata.version = read.metadata.version
          /\ CapacityFault(p) =>
                 /\ calculateSize(call[p].arg) > maxSessionSize
                 /\ UNCHANGED <<sessions, lastWrite>>
                 /\ \A e \in Entries : cell'[e] = cell[e]]_vars

\* an updateSession with a payload above the limit on a key that had a
\* record with a payload, last accessed earlier, has failed: the record has
\* its payload and size still, and lastAccessed is the time of the call
C30_Witness ==
    \E p \in Procs, k \in Keys :
        /\ call[p].op = "updateSession" /\ call[p].pc = "done"
        /\ call[p].fault = "capacity" /\ call[p].key = k
        /\ call[p].expect.kind = "update"
        /\ lastWrite[k].kind = "refresh"
        /\ sessions[k] # NoRef
        /\ Stored(k).data = call[p].expect.arg
        /\ Stored(k).data # call[p].arg
        /\ Stored(k).metadata.size = calculateSize(call[p].expect.arg)
        /\ Stored(k).metadata.version = 1
        /\ Stored(k).metadata.lastAccessed = now
        /\ Stored(k).metadata.lastAccessed > call[p].expect.rec.metadata.lastAccessed

-----------------------------------------------------------------------------
(* The API blueprint handler over its manager.  One caller submits          *)
(* blueprints for the session id "k1"; the manager's interval fires and the *)
(* clock advances at every await.                                           *)

NextA ==
    \/ \E p \in SeqProcs, input \in APIRequests : ProcessAPIRequest(p, input)
    \/ \E p \in SeqProcs : GetSessionResume(p)
    \/ \E p \in SeqProcs : APIStoreInHistory(p)
    \/ \E p \in SeqProcs : UpdateSessionResume(p)
    \/ \E p \in SeqProcs : APIRespond(p)
    \/ \E p \in SeqProcs : RequestDone(p)
    \/ TimerCleanup("apiBlueprint")
    \/ Tick

SpecA == InitH /\ [][NextA]_vars

\* the handler of caller p has pushed onto the lists of the session object
\* that getSession handed to it, and its updateSession has not written yet
PushedNotWritten(p) ==
    /\ req[p].kind = "api" /\ req[p].pc = "updateSession"
    /\ call[p].pc \in {"got", "size"}

\* C5: the store shares no object with any caller; a record just read is the
\* record as last written through set, also when the caller has pushed onto
\* the lists of the record it was handed before; and whatever a caller does
\* to the record it holds, the stored record stays the one last written
\* through set.
C5_Isolation ==
    /\ \A k \in Entries :
          sessions[k] # NoRef =>
              /\ \A p \in Procs : call[p].session # sessions[k]
              /\ cell[sessions[k]] = lastWrite[k].rec
    /\ \A p \in Procs :
          (call[p].pc = "got" /\ call[p].session # NoRef) =>
              cell[call[p].session] = call[p].expect.rec

\* the handler has pushed a second document and a critique focus onto the
\* record it holds; the store still has the record with one document, and
\* the get inside updateSession has read that record
C5_Witness ==
    \E p \in Procs :
        /\ PushedNotWritten(p)
        /\ call[p].pc = "got" /\ call[p].session # NoRef
        /\ sessions[ApiEntry] # NoRef
        /\ Len(req[p].session.data.history) = 2
        /\ req[p].session.data.critiques = <<S_a>>
        /\ Len(cell[sessions[ApiEntry]].data.history) = 1
        /\ cell[sessions[ApiEntry]].data.critiques = <<>>
        /\ cell[call[p].session] = lastWrite[ApiEntry].rec

====
